---- MODULE Spec2Model ----
(***************************************************************************)
(* State-machine model of the todo-list backend: the layered task store    *)
(* and its use cases, the legacy task records, the domain User entity, the *)
(* cache-backed login-attempt, token and session stores, and the           *)
(* password-reset request flow.  Times are minutes on an integer clock.    *)
(***************************************************************************)
EXTENDS Integers, Sequences, FiniteSets, Bags, TLC

VARIABLES now, tasks, prev, resp, legacyTasks, legacyUser, user, userHist,
          ipAttempts, emailAttempts, tokenStore, userTokens, sessionStore,
          userSessions, nextToken, nextSession, authResp, authPrev,
          layeredUsers, legacyUsers, resetIssued, resetSeen, resetResp,
          procs, issued, revokedDue, staleUse, entity, entityHist,
          stats, pagination, accounts, sweep, saving, validating, terminated

taskVars == <<tasks, prev, resp>>

legacyVars == <<legacyTasks, legacyUser>>

userVars == <<user, userHist>>

attemptVars == <<ipAttempts, emailAttempts>>

tokenVars == <<tokenStore, userTokens, nextToken>>

sessionVars == <<sessionStore, userSessions, nextSession>>

resetVars == <<layeredUsers, legacyUsers, resetIssued, resetSeen, resetResp>>

procVars == <<procs, issued, revokedDue, staleUse>>

authSideVars == <<resetVars, procVars>>

authVars ==
    <<attemptVars, tokenVars, sessionVars, authResp, authPrev, authSideVars>>

accountVars == <<accounts, sweep>>

raceVars == <<saving, validating, terminated>>

valueVars == <<stats, pagination, accountVars, raceVars>>

entityVars == <<entity, entityHist, valueVars>>

outsideTasks == <<legacyVars, entityVars, userVars, authVars>>

vars == <<now, taskVars, outsideTasks>>

(* ------------------------------------------------------------------ *)
(* Bounds of the model                                                 *)
(* ------------------------------------------------------------------ *)
MaxTasks == 4
MaxStoreTasks == 2
MaxBulkTasks == 3
MaxBulkLen == 3
MaxLegacyTasks == 1
MaxTicks == 1
MaxEntityTicks == 3
MaxStatTasks == 3
MaxStoredTasks == 2
MaxProductivityTasks == 2
MaxPage == 4
MaxPageSize == 10
MaxTotalItems == 25
MaxFailed == 7
MaxAttempts == 11
MaxTokens == 4
MaxSessions == 2
MaxSweepTicks == 1

(* ------------------------------------------------------------------ *)
(* Values                                                              *)
(* ------------------------------------------------------------------ *)
NoTime == -1
NoId == 0
NoTask == [absent |-> TRUE]
NoField == "none"
NoTitle == <<>>

HOUR == 60
DAY == 24 * HOUR
UNCOMPLETE_WINDOW == 24 * HOUR
URGENT_LIMIT == 3
MAX_ATTEMPTS == 5
LOCK_MINUTES == 30
IP_MAX_ATTEMPTS == 10
EMAIL_MAX_ATTEMPTS == 5
WINDOW_MINUTES == 15
ACCESS_MINUTES == HOUR
REFRESH_MINUTES == 7 * 24 * HOUR
SESSION_MINUTES == 24 * HOUR
ATTEMPTS_TTL == HOUR
USER_TOKENS_TTL == 7 * 24 * HOUR
USER_SESSIONS_TTL == 24 * HOUR

Owners == {"u1", "u2"}
TaskIds == 1..MaxTasks
Priorities == {"low", "medium", "high", "urgent"}
Statuses == {"pending", "in_progress", "completed", "cancelled"}

(* ------------------------------------------------------------------ *)
(* Titles: sequences of characters; str.strip, str.lower, str.split    *)
(* ------------------------------------------------------------------ *)
Lower(c) == IF c = "A" THEN "a" ELSE IF c = "B" THEN "b" ELSE c

LowerStr(s) == [i \in 1..Len(s) |-> Lower(s[i])]

RECURSIVE LStrip(_)
LStrip(s) == IF s # <<>> /\ Head(s) = " " THEN LStrip(Tail(s)) ELSE s

RECURSIVE RStrip(_)
RStrip(s) == IF s # <<>> /\ s[Len(s)] = " " THEN RStrip(SubSeq(s, 1, Len(s) - 1)) ELSE s

Strip(s) == RStrip(LStrip(s))

(* str.split(): the whitespace-separated words, empty words dropped *)
RECURSIVE SplitAcc(_, _, _)
SplitAcc(s, cur, acc) ==
    IF s = <<>> THEN (IF cur = <<>> THEN acc ELSE Append(acc, cur))
    ELSE IF Head(s) = " "
         THEN SplitAcc(Tail(s), <<>>, IF cur = <<>> THEN acc ELSE Append(acc, cur))
         ELSE SplitAcc(Tail(s), Append(cur, Head(s)), acc)

Split(s) == SplitAcc(s, <<>>, <<>>)

SeqToSet(q) == {q[i] : i \in 1..Len(q)}

Max(a, b) == IF a >= b THEN a ELSE b

(* ------------------------------------------------------------------ *)
(* Task entity (domain)                                                *)
(* ------------------------------------------------------------------ *)
TaskValidateAnyId(e, t) ==
    IF e.title = <<>> \/ Len(Strip(e.title)) < 3
    THEN "Task title must be at least 3 characters long"
    ELSE IF e.due_date # NoTime /\ e.due_date < t
         THEN "Due date cannot be in the past"
         ELSE "ok"

(* Task._validate: the ValueError message, or "ok" *)
TaskValidate(e, t) ==
    IF e.title = <<>> \/ Len(Strip(e.title)) < 3
    THEN "Task title must be at least 3 characters long"
    ELSE IF e.due_date # NoTime /\ e.due_date < t /\ e.id = NoId
         THEN "Due date cannot be in the past"
         ELSE "ok"

is_completed(e) == e.status = "completed"

mark_as_completed_again(e, t) ==
    [ok |-> TRUE, error |-> "ok",
     task |-> [e EXCEPT !.status = "completed", !.completed_at = t]]

(* Task.mark_as_completed: [ok, task] *)
mark_as_completed(e, t) ==
    IF e.status = "completed"
    THEN [ok |-> FALSE, error |-> "Task is already completed", task |-> e]
    ELSE [ok |-> TRUE, error |-> "ok",
          task |-> [e EXCEPT !.status = "completed", !.completed_at = t]]

(* Task.mark_as_pending *)
mark_as_pending(e) ==
    IF e.status = "pending"
    THEN [ok |-> FALSE, error |-> "Task is already pending", task |-> e]
    ELSE [ok |-> TRUE, error |-> "ok",
          task |-> [e EXCEPT !.status = "pending", !.completed_at = NoTime]]

is_overdue_any_status(e, t) ==
    IF e.due_date = NoTime THEN FALSE ELSE t > e.due_date

(* Task.is_overdue *)
is_overdue(e, t) ==
    IF e.due_date = NoTime \/ e.status = "completed" THEN FALSE ELSE t > e.due_date

(* Task.is_high_priority *)
is_high_priority(e) == e.priority \in {"high", "urgent"}

(* sum(1 for task in tasks if ...) over the flags of the list *)
RECURSIVE SumFlags(_)
SumFlags(flags) ==
    IF flags = <<>> THEN 0
    ELSE (IF Head(flags) THEN 1 ELSE 0) + SumFlags(Tail(flags))

(* completed / total * 100 as the fraction numerator over denominator *)
Rate(completed, total) ==
    IF total > 0 THEN [num |-> completed * 100, den |-> total]
    ELSE [num |-> 0, den |-> 1]

(* TaskStatistics.calculate *)
TaskStatisticsCalculate(list, t) ==
    LET total == Len(list)
        completed == SumFlags([i \in 1..Len(list) |-> is_completed(list[i])])
        overdue == SumFlags([i \in 1..Len(list) |-> is_overdue(list[i], t)])
        high == SumFlags([i \in 1..Len(list) |-> is_high_priority(list[i])])
    IN  [total_tasks |-> total, completed_tasks |-> completed,
         pending_tasks |-> total - completed, overdue_tasks |-> overdue,
         high_priority_tasks |-> high,
         completion_rate |-> Rate(completed, total)]

(* ------------------------------------------------------------------ *)
(* Pagination value object (shared domain)                             *)
(* ------------------------------------------------------------------ *)
(* Pagination.__post_init__: the ValueError message, or "ok" *)
PaginationValidate(page, page_size, total_items) ==
    IF page < 1 THEN "Page must be greater than 0"
    ELSE IF page_size < 1 THEN "Page size must be greater than 0"
    ELSE IF total_items < 0 THEN "Total items cannot be negative"
    ELSE "ok"

total_pages_quotient(page_size, total_items) ==
    IF total_items = 0 THEN 0 ELSE total_items \div page_size + 1

(* Pagination.total_pages *)
total_pages(page_size, total_items) ==
    IF total_items = 0 THEN 0 ELSE (total_items - 1) \div page_size + 1

(* Pagination.offset *)
offset(page, page_size) == (page - 1) * page_size

(* Pagination.has_next *)
has_next(page, page_size, total_items) == page < total_pages(page_size, total_items)

(* Pagination.has_previous *)
has_previous(page) == page > 1

(* ------------------------------------------------------------------ *)
(* Task persistence (infrastructure)                                   *)
(* ------------------------------------------------------------------ *)
(* A save that writes the record as given, without the timestamp rule *)
ModelSavePlain(m, t) == m

(* TaskModel.save: the completion timestamp follows the status *)
ModelSave(m, t) ==
    IF m.status = "completed" /\ m.completed_at = NoTime
    THEN [m EXCEPT !.completed_at = t]
    ELSE IF m.status # "completed"
         THEN [m EXCEPT !.completed_at = NoTime]
         ELSE m

(* TaskMapper.model_to_entity *)
model_to_entity(id, m) ==
    [id |-> id, title |-> m.title, priority |-> m.priority, status |-> m.status,
     due_date |-> m.due_date, completed_at |-> m.completed_at,
     user_id |-> m.user_id, created_at |-> m.created_at]

(* TaskMapper.entity_to_model: a new record; created_at is auto_now_add *)
entity_to_model(e, t) ==
    [title |-> e.title, priority |-> e.priority, status |-> e.status,
     due_date |-> e.due_date, completed_at |-> e.completed_at,
     user_id |-> e.user_id, created_at |-> t]

(* TaskMapper.update_model_from_entity: user_id and created_at are kept *)
update_model_from_entity(m, e) ==
    [m EXCEPT !.title = e.title, !.priority = e.priority, !.status = e.status,
              !.due_date = e.due_date, !.completed_at = e.completed_at]

(* DjangoTaskRepository.find_by_id: the entity, or NoTask *)
find_by_id(store, id) ==
    IF id \in DOMAIN store /\ store[id] # NoTask
    THEN model_to_entity(id, store[id])
    ELSE NoTask

(* DjangoTaskRepository.find_by_user_id: the ids of the owner's records *)
find_by_user_id(store, u) ==
    {i \in DOMAIN store : store[i] # NoTask /\ store[i].user_id = u}

(* DjangoTaskRepository.save: [ok, store, id]; fresh is the new UUID *)
RepoSave(store, e, fresh, t) ==
    IF e.id # NoId
    THEN IF store[e.id] = NoTask
         THEN [ok |-> FALSE, store |-> store, id |-> e.id]
         ELSE [ok |-> TRUE, id |-> e.id,
               store |-> [store EXCEPT
                   ![e.id] = ModelSave(update_model_from_entity(store[e.id], e), t)]]
    ELSE [ok |-> TRUE, id |-> fresh,
          store |-> [store EXCEPT ![fresh] = ModelSave(entity_to_model(e, t), t)]]

(* DjangoTaskRepository.delete *)
RepoDelete(store, id) ==
    IF store[id] = NoTask THEN store ELSE [store EXCEPT ![id] = NoTask]

(* DjangoTaskRepository.bulk_update_status: a queryset update, no save() *)
bulk_update_status(store, ids, status, t) ==
    [i \in DOMAIN store |->
        IF i \in ids /\ store[i] # NoTask /\ store[i].status \in {"pending", "in_progress"}
        THEN [store[i] EXCEPT !.status = status,
                 !.completed_at = IF status = "completed" THEN t ELSE NoTime]
        ELSE store[i]]

(* ------------------------------------------------------------------ *)
(* Task domain services                                                *)
(* ------------------------------------------------------------------ *)
Words(title) == SeqToSet(Split(LowerStr(title)))

(* TaskDomainService._are_tasks_related: word overlap above 60% *)
are_tasks_related(e1, e2) ==
    10 * Cardinality(Words(e1.title) \cap Words(e2.title))
        > 6 * Max(Len(Split(e1.title)), Len(Split(e2.title)))

(* TaskDomainService.auto_complete_related_tasks: the ids it completes *)
RelatedIds(store, done) ==
    {i \in find_by_user_id(store, done.user_id) :
        /\ i # done.id
        /\ ~is_completed(find_by_id(store, i))
        /\ are_tasks_related(done, find_by_id(store, i))}

auto_complete_related_tasks(store, done, t) ==
    IF ~is_completed(done)
    THEN [store |-> store, ids |-> {}]
    ELSE [ids |-> RelatedIds(store, done),
          store |-> [i \in DOMAIN store |->
              IF i \in RelatedIds(store, done)
              THEN ModelSave(update_model_from_entity(store[i],
                       mark_as_completed(find_by_id(store, i), t).task), t)
              ELSE store[i]]]

validate_task_creation_counts_completed(e, store, t) ==
    LET existing == {find_by_id(store, i) : i \in find_by_user_id(store, e.user_id)}
        duplicate_titles == {x \in existing :
            /\ LowerStr(x.title) = LowerStr(e.title)
            /\ x.user_id = e.user_id
            /\ ~is_completed(x)}
        urgent_tasks == {x \in existing :
            /\ x.priority = "urgent"
            /\ x.user_id = e.user_id}
    IN  (IF duplicate_titles # {}
         THEN {"A pending task with this title already exists"} ELSE {})
        \cup
        (IF e.priority = "urgent" /\ Cardinality(urgent_tasks) >= URGENT_LIMIT
         THEN {"Cannot have more than 3 urgent tasks at once"} ELSE {})
        \cup
        (IF e.due_date # NoTime /\ e.due_date - t <= HOUR
            /\ e.priority \notin {"high", "urgent"}
         THEN {"Tasks due within 1 hour must be HIGH or URGENT priority"} ELSE {})

(* TaskValidationService.validate_task_creation: the list of errors *)
validate_task_creation(e, store, t) ==
    LET existing == {find_by_id(store, i) : i \in find_by_user_id(store, e.user_id)}
        duplicate_titles == {x \in existing :
            /\ LowerStr(x.title) = LowerStr(e.title)
            /\ x.user_id = e.user_id
            /\ ~is_completed(x)}
        urgent_tasks == {x \in existing :
            /\ x.priority = "urgent"
            /\ x.user_id = e.user_id
            /\ ~is_completed(x)}
    IN  (IF duplicate_titles # {}
         THEN {"A pending task with this title already exists"} ELSE {})
        \cup
        (IF e.priority = "urgent" /\ Cardinality(urgent_tasks) >= URGENT_LIMIT
         THEN {"Cannot have more than 3 urgent tasks at once"} ELSE {})
        \cup
        (IF e.due_date # NoTime /\ e.due_date - t <= HOUR
            /\ e.priority \notin {"high", "urgent"}
         THEN {"Tasks due within 1 hour must be HIGH or URGENT priority"} ELSE {})

validate_task_update_lenient(orig, upd, t) ==
    IF orig.user_id # upd.user_id THEN {"Cannot change task owner"} ELSE {}

(* TaskValidationService.validate_task_update *)
validate_task_update(orig, upd, t) ==
    (IF orig.user_id # upd.user_id THEN {"Cannot change task owner"} ELSE {})
    \cup
    (IF /\ is_completed(orig)
        /\ ~is_completed(upd)
        /\ orig.completed_at # NoTime
        /\ t - orig.completed_at > UNCOMPLETE_WINDOW
     THEN {"Cannot uncomplete a task that was completed more than 24 hours ago"}
     ELSE {})

(* ------------------------------------------------------------------ *)
(* Task use cases (application)                                        *)
(* ------------------------------------------------------------------ *)
(* CreateTaskDTO.to_priority_enum *)
to_priority_enum(p) == IF p \in Priorities THEN p ELSE "medium"

Raised(exc, prefix, msgs, store) ==
    [exc |-> exc, prefix |-> prefix, msgs |-> msgs, store |-> store, id |-> NoId]

Returned(store, id) ==
    [exc |-> "none", prefix |-> "", msgs |-> {}, store |-> store, id |-> id]

(* CreateTaskUseCase.execute *)
CreateTaskUC(store, dto, fresh, t) ==
    LET e == [id |-> NoId, title |-> Strip(dto.title),
              priority |-> to_priority_enum(dto.priority), status |-> "pending",
              due_date |-> dto.due_date, completed_at |-> NoTime,
              user_id |-> dto.user_id, created_at |-> t]
        errors == validate_task_creation(e, store, t)
    IN  IF TaskValidate(e, t) # "ok"
        THEN Raised("ValueError", "", {TaskValidate(e, t)}, store)
        ELSE IF errors # {}
             THEN Raised("ValueError", "Validation failed", errors, store)
             ELSE Returned(RepoSave(store, e, fresh, t).store, fresh)

(* UpdateTaskUseCase.execute *)
UpdateTaskUC(store, dto, t) ==
    LET existing == find_by_id(store, dto.task_id)
        merged == [existing EXCEPT
            !.title = IF dto.title # NoTitle THEN dto.title ELSE @,
            !.priority = IF dto.priority # NoField THEN dto.priority ELSE @,
            !.due_date = IF dto.due_date # NoTime THEN dto.due_date ELSE @]
        updated ==
            IF dto.status = "completed" /\ existing.status # "completed"
            THEN mark_as_completed(merged, t).task
            ELSE IF dto.status = "pending" /\ existing.status = "completed"
                 THEN mark_as_pending(merged).task
                 ELSE IF dto.status # NoField /\ dto.status # existing.status
                      THEN [merged EXCEPT !.status = dto.status]
                      ELSE merged
        errors == validate_task_update(existing, updated, t)
    IN  IF existing = NoTask
        THEN Raised("ValueError", "", {"Task with ID not found"}, store)
        ELSE IF TaskValidate(merged, t) # "ok"
             THEN Raised("ValueError", "", {TaskValidate(merged, t)}, store)
             ELSE IF errors # {}
                  THEN Raised("ValueError", "Validation failed", errors, store)
                  ELSE Returned(RepoSave(store, updated, NoId, t).store, dto.task_id)

(* GetTaskUseCase.execute: id = NoId stands for the None result *)
GetTaskUC(store, task_id, user_id) ==
    LET task == find_by_id(store, task_id)
    IN  IF task = NoTask
        THEN Returned(store, NoId)
        ELSE IF task.user_id # user_id
             THEN Raised("PermissionError", "",
                         {"Access denied: Task belongs to another user"}, store)
             ELSE Returned(store, task_id)

(* DeleteTaskUseCase.execute *)
DeleteTaskUC(store, task_id, user_id) ==
    LET task == find_by_id(store, task_id)
    IN  IF task = NoTask
        THEN Raised("ValueError", "", {"Task with ID not found"}, store)
        ELSE IF task.user_id # user_id
             THEN Raised("PermissionError", "",
                         {"Access denied: Task belongs to another user"}, store)
             ELSE Returned(RepoDelete(store, task_id), task_id)

(* A loop that completes every existing task of the list, whoever owns it *)
RECURSIVE BulkLoopAnyOwner(_, _, _, _, _, _)
BulkLoopAnyOwner(store, ids, user_id, t, updated, auto) ==
    IF ids = <<>>
    THEN [store |-> store, updated_count |-> updated, auto_completed_count |-> auto]
    ELSE LET task == find_by_id(store, Head(ids))
         IN  IF task = NoTask \/ is_completed(task)
             THEN BulkLoopAnyOwner(store, Tail(ids), user_id, t, updated, auto)
             ELSE LET saved == RepoSave(store, mark_as_completed(task, t).task, NoId, t)
                      rel   == auto_complete_related_tasks(saved.store,
                                   find_by_id(saved.store, task.id), t)
                  IN  BulkLoopAnyOwner(rel.store, Tail(ids), user_id, t,
                                       updated + 1, auto + Cardinality(rel.ids))

(* BulkCompleteTasksUseCase.execute: the loop over dto.task_ids *)
RECURSIVE BulkLoop(_, _, _, _, _, _)
BulkLoop(store, ids, user_id, t, updated, auto) ==
    IF ids = <<>>
    THEN [store |-> store, updated_count |-> updated, auto_completed_count |-> auto]
    ELSE LET task == find_by_id(store, Head(ids))
         IN  IF task = NoTask \/ task.user_id # user_id \/ is_completed(task)
             THEN BulkLoop(store, Tail(ids), user_id, t, updated, auto)
             ELSE LET saved == RepoSave(store, mark_as_completed(task, t).task, NoId, t)
                      rel   == auto_complete_related_tasks(saved.store,
                                   find_by_id(saved.store, task.id), t)
                  IN  BulkLoop(rel.store, Tail(ids), user_id, t,
                               updated + 1, auto + Cardinality(rel.ids))

BulkCompleteTasksUC(store, task_ids, user_id, t) ==
    BulkLoop(store, task_ids, user_id, t, 0, 0)


(* ------------------------------------------------------------------ *)
(* User entity (domain)                                                *)
(* ------------------------------------------------------------------ *)
UserStatuses == {"active", "inactive", "suspended", "pending_verification"}

(* UserDomainService.create_user: the entity as it is constructed *)
NewUser(st, verified) ==
    [status |-> st, is_email_verified |-> verified, failed_login_attempts |-> 0,
     account_locked_until |-> NoTime, last_login |-> NoTime]

NoHist ==
    [op |-> "none", ok |-> TRUE, counting |-> TRUE, streak |-> 0, error |-> "none",
     before |-> NewUser("active", TRUE), level |-> "none"]

Ok(u) == [ok |-> TRUE, error |-> "ok", user |-> u]

Fail(msg, u) == [ok |-> FALSE, error |-> msg, user |-> u]

(* User.is_account_locked *)
is_account_locked(u, t) ==
    u.account_locked_until # NoTime /\ t < u.account_locked_until

(* User.is_active and User.can_login *)
can_login(u, t) == u.status = "active" /\ ~is_account_locked(u, t)

get_security_level_unverified_first(u, t) ==
    IF ~u.is_email_verified THEN "UNVERIFIED"
    ELSE IF is_account_locked(u, t) THEN "LOCKED"
    ELSE IF u.failed_login_attempts >= 3 THEN "HIGH_RISK"
    ELSE "NORMAL"

(* User.get_security_level *)
get_security_level(u, t) ==
    IF is_account_locked(u, t) THEN "LOCKED"
    ELSE IF u.failed_login_attempts >= 3 THEN "HIGH_RISK"
    ELSE IF ~u.is_email_verified THEN "UNVERIFIED"
    ELSE "NORMAL"

(* User.lock_account *)
lock_account(u, t) ==
    IF is_account_locked(u, t)
    THEN Fail("Account is already locked", u)
    ELSE Ok([u EXCEPT !.account_locked_until = t + LOCK_MINUTES,
                      !.status = "suspended"])

(* User.unlock_account *)
unlock_account(u) ==
    Ok([u EXCEPT !.account_locked_until = NoTime,
                 !.failed_login_attempts = 0,
                 !.status = IF @ = "suspended" THEN "active" ELSE @])

(* An increment that locks only past the limit *)
increment_failed_login_late(u, t) ==
    LET u1 == [u EXCEPT !.failed_login_attempts = @ + 1]
    IN  IF u1.failed_login_attempts > MAX_ATTEMPTS
        THEN Fail(lock_account(u1, t).error, lock_account(u1, t).user)
        ELSE Ok(u1)

(* User.increment_failed_login: the count is raised before the lock, *)
(* and stays raised when lock_account raises                         *)
increment_failed_login(u, t) ==
    LET u1 == [u EXCEPT !.failed_login_attempts = @ + 1]
        r  == lock_account(u1, t)
    IN  IF u1.failed_login_attempts >= MAX_ATTEMPTS
        THEN [ok |-> r.ok, error |-> r.error, user |-> r.user]
        ELSE Ok(u1)

(* User.reset_failed_login *)
reset_failed_login(u) ==
    Ok(IF u.failed_login_attempts > 0
       THEN [u EXCEPT !.failed_login_attempts = 0] ELSE u)

(* User.verify_email *)
verify_email(u) ==
    IF u.is_email_verified
    THEN Fail("Email is already verified", u)
    ELSE Ok([u EXCEPT !.is_email_verified = TRUE,
                      !.status = IF @ = "pending_verification" THEN "active" ELSE @])

(* User.update_last_login *)
update_last_login(u, t) ==
    Ok(reset_failed_login([u EXCEPT !.last_login = t]).user)

(* User.deactivate *)
deactivate(u) ==
    IF u.status = "inactive"
    THEN Fail("User is already inactive", u)
    ELSE Ok([u EXCEPT !.status = "inactive"])

(* User.activate *)
activate(u) ==
    IF u.status = "active"
    THEN Fail("User is already active", u)
    ELSE unlock_account([u EXCEPT !.status = "active"])


(* ------------------------------------------------------------------ *)
(* The authentication cache: every key holds a value until its TTL     *)
(* runs out; a read of a missing or expired key gives the default.     *)
(* ------------------------------------------------------------------ *)
Ips == {"ip1", "ip2"}
Emails == {"e1", "e2", "E1"}
AuthUsers == {"u1"}
TokenIds == 1..MaxTokens
SessionIds == 1..MaxSessions

NoEntry == [present |-> FALSE]

Entry(val, until) == [present |-> TRUE, val |-> val, until |-> until]

NoAuthResp ==
    [op |-> "none", email |-> "none", ip |-> "none", user |-> "none", success |-> FALSE,
     error |-> "none", access |-> NoId, refresh |-> NoId, session |-> NoId,
     revoke_all |-> FALSE]

NoAuthPrev == [ip |-> [i \in Ips |-> NoEntry], email |-> [e \in Emails |-> NoEntry]]

(* cache.get(key, default) *)
CacheGet(e, t, default) == IF e.present /\ t < e.until THEN e.val ELSE default

(* str.lower on an email address *)
EmailLower(e) == IF e = "E1" THEN "e1" ELSE e

(* ------------------------------------------------------------------ *)
(* Password reset requests: the layered use case and view, and the     *)
(* legacy endpoint                                                     *)
(* ------------------------------------------------------------------ *)
StoredEmails == {"e1", "e2"}
LegacyStates == {"none", "active", "inactive"}
RESET_MESSAGE == "If the email address exists, a password reset link has been sent."
LEGACY_RESET_MESSAGE == "If the email exists, a password reset link has been sent."

NoResetResp == [flow |-> "none", email |-> "none", status |-> 0, body |-> <<>>]

ResetIdle ==
    /\ layeredUsers = {}
    /\ legacyUsers = [e \in StoredEmails |-> "none"]
    /\ resetIssued = {}
    /\ resetSeen = {}
    /\ resetResp = NoResetResp

(* DjangoUserRepository.find_by_email: the stored row, if any *)
find_by_email(users, email) ==
    IF EmailLower(email) \in users THEN EmailLower(email) ELSE "none"

(* PasswordResetResponseDTO *)
PasswordResetResponseDTO(success, message, token) ==
    [success |-> success, message |-> message, token |-> token]

PasswordResetRequestUCReveal(users, email) ==
    IF find_by_email(users, email) = "none"
    THEN PasswordResetResponseDTO(TRUE, "No account with this email address.", NoField)
    ELSE PasswordResetResponseDTO(TRUE, RESET_MESSAGE, "token")

(* PasswordResetRequestUseCase.execute on an address the DTO accepts *)
PasswordResetRequestUC(users, email) ==
    IF find_by_email(users, email) = "none"
    THEN PasswordResetResponseDTO(TRUE, RESET_MESSAGE, NoField)
    ELSE PasswordResetResponseDTO(TRUE, RESET_MESSAGE, "token")

(* the response body the view builds from the DTO *)
ResetBody(message) == [f \in {"message"} |-> message]

(* User.objects.get(email=email, is_active=True) of the legacy endpoint *)
legacy_get_active(users, email) ==
    IF email \in StoredEmails /\ users[email] = "active" THEN email ELSE "none"

legacy_exists(users, email) == email \in StoredEmails /\ users[email] # "none"

ResetSeen(flow, existed, status, body, made) ==
    [flow |-> flow, existed |-> existed, status |-> status, body |-> body,
     issued |-> made]

(* ------------------------------------------------------------------ *)
(* Login attempts (CacheLoginAttemptRepository) and the rate limits    *)
(* ------------------------------------------------------------------ *)
Attempt(email, ip, success, reason, t) ==
    [email |-> email, ip_address |-> ip, success |-> success,
     failure_reason |-> reason, attempted_at |-> t]

RECURSIVE CountIn(_, _)
CountIn(S, b) ==
    IF S = {} THEN 0
    ELSE LET a == CHOOSE x \in S : TRUE
         IN  CopiesIn(a, b) + CountIn(S \ {a}, b)

(* find_attempts_by_ip / find_attempts_by_email, then the failed ones: *)
(* their number within the window                                      *)
FailedInWindow(e, t, window) ==
    LET b == CacheGet(e, t, EmptyBag)
    IN  CountIn({a \in BagToSet(b) : a.attempted_at >= t - window /\ ~a.success}, b)

(* A limit that looks at one minute less than the window *)
is_ip_rate_limited_short(ips, ip, t) ==
    FailedInWindow(ips[ip], t, WINDOW_MINUTES - 1) >= IP_MAX_ATTEMPTS

(* AuthenticationDomainService.is_ip_rate_limited *)
is_ip_rate_limited(ips, ip, t) ==
    FailedInWindow(ips[ip], t, WINDOW_MINUTES) >= IP_MAX_ATTEMPTS

(* AuthenticationDomainService.is_email_rate_limited *)
is_email_rate_limited(emails, email, t) ==
    FailedInWindow(emails[email], t, WINDOW_MINUTES) >= EMAIL_MAX_ATTEMPTS

(* CacheLoginAttemptRepository.save_attempt, one key *)
AppendAttempt(e, a, t) ==
    Entry(CacheGet(e, t, EmptyBag) (+) SetToBag({a}), t + ATTEMPTS_TTL)

(* AuthenticationDomainService.record_login_attempt *)
RecordAttempt(a) ==
    /\ ipAttempts' = [ipAttempts EXCEPT ![a.ip_address] = AppendAttempt(@, a, now)]
    /\ emailAttempts' = [emailAttempts EXCEPT ![a.email] = AppendAttempt(@, a, now)]

RECURSIVE SumOver(_, _)
SumOver(S, f) ==
    IF S = {} THEN 0
    ELSE LET x == CHOOSE y \in S : TRUE
         IN  f[x] + SumOver(S \ {x}, f)

(* The attempts held under the IP keys, expired or not *)
AttemptsRecorded ==
    SumOver(Ips, [i \in Ips |->
        IF ipAttempts[i].present THEN BagCardinality(ipAttempts[i].val) ELSE 0])

(* ------------------------------------------------------------------ *)
(* Tokens (CacheAuthTokenRepository) and sessions                      *)
(* (CacheAuthSessionRepository)                                        *)
(* ------------------------------------------------------------------ *)
NoToken == [absent |-> TRUE]

NoSession == [absent |-> TRUE]

AuthToken(type, uid, t, life) ==
    [token_type |-> type, user_id |-> uid, expires_at |-> t + life, is_revoked |-> FALSE]

(* AuthToken.is_valid *)
token_is_valid(tok, t) == t < tok.expires_at /\ ~tok.is_revoked

(* CacheAuthTokenRepository.find_token *)
find_token(ts, id, t) ==
    IF id \in DOMAIN ts THEN CacheGet(ts[id], t, NoToken) ELSE NoToken

(* save_token, first write: the token under its own key *)
SetToken(ts, id, tok) == [ts EXCEPT ![id] = Entry(tok, tok.expires_at)]

(* save_token, the read of the user's tracking list *)
GetUserTokens(ut, uid, t) == CacheGet(ut[uid], t, <<>>)

(* save_token, second write: the list read before, with the token appended *)
SetUserTokens(ut, uid, list, id, t) ==
    IF id \in SeqToSet(list) THEN ut
    ELSE [ut EXCEPT ![uid] = Entry(Append(list, id), t + USER_TOKENS_TTL)]

(* CacheAuthTokenRepository.save_token, run without interruption *)
save_token(ts, ut, id, tok, t) ==
    [tokenStore |-> SetToken(ts, id, tok),
     userTokens |-> SetUserTokens(ut, tok.user_id, GetUserTokens(ut, tok.user_id, t), id, t)]

(* CacheAuthTokenRepository.revoke_all_user_tokens *)
revoke_all_user_tokens(ts, ut, uid, t) ==
    [tokenStore |-> [i \in DOMAIN ts |->
                        IF i \in SeqToSet(GetUserTokens(ut, uid, t)) THEN NoEntry ELSE ts[i]],
     userTokens |-> [ut EXCEPT ![uid] = NoEntry]]

(* AuthenticationDomainService.validate_jwt_token: the payload, or NoToken *)
validate_jwt_token(ts, id, t) ==
    LET tok == find_token(ts, id, t)
    IN  IF tok = NoToken THEN NoToken
        ELSE IF ~token_is_valid(tok, t) THEN NoToken
        ELSE tok

(* AuthenticationDomainService.generate_jwt_tokens: access, then refresh *)
generate_jwt_tokens(ts, ut, uid, id, t) ==
    LET s1 == save_token(ts, ut, id, AuthToken("access", uid, t, ACCESS_MINUTES), t)
    IN  save_token(s1.tokenStore, s1.userTokens, id + 1,
                   AuthToken("refresh", uid, t, REFRESH_MINUTES), t)

AuthSession(uid, t) ==
    [user_id |-> uid, is_active |-> TRUE, expires_at |-> t + SESSION_MINUTES,
     last_activity |-> t]

(* AuthSession.is_valid *)
session_is_valid(x, t) == x.is_active /\ t < x.expires_at

(* CacheAuthSessionRepository.find_session *)
find_session(ss, sid, t) ==
    IF sid \in DOMAIN ss THEN CacheGet(ss[sid], t, NoSession) ELSE NoSession

(* CacheAuthSessionRepository.save_session *)
save_session(ss, us, sid, x, t) ==
    LET list == CacheGet(us[x.user_id], t, <<>>)
    IN  [sessionStore |-> [ss EXCEPT ![sid] = Entry(x, x.expires_at)],
         userSessions |-> IF sid \in SeqToSet(list) THEN us
                          ELSE [us EXCEPT ![x.user_id] =
                                   Entry(Append(list, sid), t + USER_SESSIONS_TTL)]]

(* CacheAuthSessionRepository.terminate_session: kept one more minute *)
terminate_session(ss, sid, t) ==
    IF find_session(ss, sid, t) = NoSession THEN ss
    ELSE [ss EXCEPT ![sid] = Entry([find_session(ss, sid, t) EXCEPT !.is_active = FALSE], t + 1)]

(* CacheAuthSessionRepository.terminate_all_user_sessions *)
terminate_all_user_sessions(ss, us, uid, t) ==
    LET live == {sid \in SeqToSet(CacheGet(us[uid], t, <<>>)) :
                    /\ find_session(ss, sid, t) # NoSession
                    /\ session_is_valid(find_session(ss, sid, t), t)}
    IN  [sessionStore |-> [sid \in DOMAIN ss |->
                              IF sid \in live THEN terminate_session(ss, sid, t)[sid]
                              ELSE ss[sid]],
         userSessions |-> [us EXCEPT ![uid] = NoEntry]]

(* ------------------------------------------------------------------ *)
(* Requests in flight: each worker runs one handler, one cache         *)
(* operation at a time                                                 *)
(* ------------------------------------------------------------------ *)
Procs == {"w1", "w2"}

NoProc ==
    [op |-> "idle", pc |-> "idle", access |-> NoId, refresh |-> NoId,
     at |-> NoTime, list |-> <<>>, snap |-> {}]

ProcIdle ==
    /\ procs = [p \in Procs |-> NoProc]
    /\ issued = {}
    /\ revokedDue = {}
    /\ staleUse = {}

(* ------------------------------------------------------------------ *)
(* Task handlers as steps of the state machine.  prev is the store as  *)
(* the handler found it, resp is what the handler answered.            *)
(* ------------------------------------------------------------------ *)
EmptyStore == [i \in TaskIds |-> NoTask]

NoResp ==
    [op |-> "none", user |-> "none", id |-> NoId, code |-> 0, exc |-> "none",
     prefix |-> "", msgs |-> {}, updated_count |-> 0, auto_completed_count |-> 0,
     ids |-> <<>>, req_status |-> NoField, req_priority |-> NoField,
     req_title |-> NoTitle, req_days |-> 0, body |-> NoField]

Resp(op, who, id, code, r) ==
    [NoResp EXCEPT !.op = op, !.user = who, !.id = id, !.code = code,
                   !.exc = r.exc, !.prefix = r.prefix, !.msgs = r.msgs]

FreeIds(store, cap) == {i \in 1..cap : store[i] = NoTask}

LeastFree(store, cap) ==
    CHOOSE i \in FreeIds(store, cap) : \A j \in FreeIds(store, cap) : i <= j

(* TaskListView.post past the serializer: CreateTaskUseCase.execute *)
CreateTask(u, title, prio, due, cap) ==
    /\ FreeIds(tasks, cap) # {}
    /\ LET dto == [title |-> title, priority |-> prio, due_date |-> due, user_id |-> u]
           r   == CreateTaskUC(tasks, dto, LeastFree(tasks, cap), now)
       IN  /\ tasks' = r.store
           /\ resp' = [Resp("create", u, r.id, IF r.exc = "none" THEN 201 ELSE 400, r)
                          EXCEPT !.req_priority = prio]
    /\ prev' = tasks
    /\ UNCHANGED <<now, outsideTasks>>

(* TaskDetailView.get *)
TaskDetailGet(u, id) ==
    /\ LET r == GetTaskUC(tasks, id, u)
       IN  resp' = Resp("get", u, id,
                        IF r.exc = "PermissionError" THEN 403
                        ELSE IF r.id = NoId THEN 404 ELSE 200, r)
    /\ prev' = tasks
    /\ UNCHANGED <<tasks, now, outsideTasks>>

(* UpdateTaskSerializer.validate_title *)
UpdateSerializerValid(title) == title = NoTitle \/ Len(Strip(title)) >= 3

(* TaskDetailView.put *)
TaskDetailPut(u, id, title, prio, st, due) ==
    /\ LET dto == [task_id |-> id,
                   title |-> IF title = NoTitle THEN NoTitle ELSE Strip(title),
                   priority |-> prio, status |-> st, due_date |-> due]
           r   == UpdateTaskUC(tasks, dto, now)
       IN  IF ~UpdateSerializerValid(title)
           THEN /\ tasks' = tasks
                /\ resp' = [Resp("put", u, id, 400,
                                 Raised("ValidationError", "", {"Invalid data"}, tasks))
                               EXCEPT !.req_status = st, !.req_priority = prio]
           ELSE IF find_by_id(tasks, id) = NoTask
           THEN /\ tasks' = tasks
                /\ resp' = [Resp("put", u, id, 404,
                                 Raised("none", "", {"Task not found"}, tasks))
                               EXCEPT !.req_status = st, !.req_priority = prio]
           ELSE IF find_by_id(tasks, id).user_id # u
           THEN /\ tasks' = tasks
                /\ resp' = [Resp("put", u, id, 403,
                                 Raised("none", "", {"Access denied"}, tasks))
                               EXCEPT !.req_status = st, !.req_priority = prio]
           ELSE /\ tasks' = r.store
                /\ resp' = [Resp("put", u, id, IF r.exc = "none" THEN 200 ELSE 400, r)
                               EXCEPT !.req_status = st, !.req_priority = prio]
    /\ prev' = tasks
    /\ UNCHANGED <<now, outsideTasks>>

(* TaskDetailView.delete *)
TaskDetailDelete(u, id) ==
    /\ LET r == DeleteTaskUC(tasks, id, u)
       IN  /\ tasks' = r.store
           /\ resp' = Resp("delete", u, id,
                           IF r.exc = "ValueError" THEN 400
                           ELSE IF r.exc = "PermissionError" THEN 403 ELSE 204, r)
    /\ prev' = tasks
    /\ UNCHANGED <<now, outsideTasks>>

(* bulk_complete_tasks view: BulkCompleteTasksUseCase.execute *)
BulkCompleteTasks(u, ids) ==
    /\ IF ids = <<>>
       THEN /\ tasks' = tasks
            /\ resp' = [Resp("bulk_complete", u, NoId, 400,
                          Raised("ValueError", "", {"No task IDs provided"}, tasks))
                        EXCEPT !.ids = ids]
       ELSE LET r == BulkCompleteTasksUC(tasks, ids, u, now)
            IN  /\ tasks' = r.store
                /\ resp' = [Resp("bulk_complete", u, NoId, 200, Returned(r.store, NoId))
                            EXCEPT !.updated_count = r.updated_count,
                                   !.auto_completed_count = r.auto_completed_count,
                                   !.ids = ids]
    /\ prev' = tasks
    /\ UNCHANGED <<now, outsideTasks>>

(* DjangoTaskRepository.bulk_update_status called on the repository *)
RepoBulkUpdateStatus(ids, st) ==
    /\ tasks' = bulk_update_status(tasks, ids, st, now)
    /\ resp' = [NoResp EXCEPT !.op = "bulk_update_status"]
    /\ prev' = tasks
    /\ UNCHANGED <<now, outsideTasks>>

(* The clock advances by d minutes, up to limit *)
Tick(d, limit) ==
    /\ now + d <= limit
    /\ now' = now + d
    /\ resp' = [NoResp EXCEPT !.op = "tick"]
    /\ prev' = tasks
    /\ UNCHANGED <<tasks, legacyVars, entityVars>>


(* ------------------------------------------------------------------ *)
(* Legacy task records (api app): a completed flag and its timestamp   *)
(* ------------------------------------------------------------------ *)
LegacyIds == 1..MaxLegacyTasks

EmptyLegacy == [i \in LegacyIds |-> NoTask]

(* api Task.save *)
LegacyTaskSave(m, t) ==
    IF m.completed /\ m.completed_at = NoTime
    THEN [m EXCEPT !.completed_at = t]
    ELSE IF ~m.completed
         THEN [m EXCEPT !.completed_at = NoTime]
         ELSE m

(* TaskDetailSerializer.validate: completed is "true", "false" or NoField; *)
(* given tells whether the attributes carry completed and completed_at     *)
LegacyValidate(completed, t) ==
    IF completed = "true"
    THEN [given |-> TRUE, completed |-> TRUE, completed_at |-> t]
    ELSE IF completed = "false"
         THEN [given |-> TRUE, completed |-> FALSE, completed_at |-> NoTime]
         ELSE [given |-> FALSE, completed |-> FALSE, completed_at |-> NoTime]

LegacyStep(op) ==
    /\ resp' = [NoResp EXCEPT !.op = op]
    /\ prev' = tasks
    /\ UNCHANGED <<now, tasks, legacyUser, entityVars, userVars, authVars>>

(* TaskListCreateView.perform_create *)
LegacyCreate ==
    /\ \E i \in LegacyIds :
          /\ legacyTasks[i] = NoTask
          /\ \A j \in LegacyIds : j < i => legacyTasks[j] # NoTask
          /\ legacyTasks' = [legacyTasks EXCEPT
                 ![i] = LegacyTaskSave([completed |-> FALSE, completed_at |-> NoTime], now)]
    /\ LegacyStep("legacy_create")

(* api TaskDetailView update: serializer attributes set, then save() *)
LegacyUpdate(i, completed) ==
    /\ legacyTasks[i] # NoTask
    /\ LET attrs == LegacyValidate(completed, now)
           m == [completed |-> IF attrs.given
                               THEN attrs.completed ELSE legacyTasks[i].completed,
                 completed_at |-> IF attrs.given
                                  THEN attrs.completed_at ELSE legacyTasks[i].completed_at]
       IN  legacyTasks' = [legacyTasks EXCEPT ![i] = LegacyTaskSave(m, now)]
    /\ LegacyStep("legacy_update")

(* api bulk_complete_tasks and TaskAdmin.mark_completed: queryset update *)
LegacyMarkCompleted(store, ids, t) ==
    [i \in DOMAIN store |->
        IF i \in ids /\ store[i] # NoTask /\ ~store[i].completed
        THEN [completed |-> TRUE, completed_at |-> t]
        ELSE store[i]]

(* TaskAdmin.mark_pending: queryset update *)
LegacyMarkPending(store, ids) ==
    [i \in DOMAIN store |->
        IF i \in ids /\ store[i] # NoTask /\ store[i].completed
        THEN [completed |-> FALSE, completed_at |-> NoTime]
        ELSE store[i]]

LegacyBulkComplete(ids) ==
    /\ ids # {}
    /\ legacyTasks' = LegacyMarkCompleted(legacyTasks, ids, now)
    /\ LegacyStep("legacy_bulk_complete")

AdminMarkCompleted(ids) ==
    /\ legacyTasks' = LegacyMarkCompleted(legacyTasks, ids, now)
    /\ LegacyStep("admin_mark_completed")

AdminMarkPending(ids) ==
    /\ legacyTasks' = LegacyMarkPending(legacyTasks, ids)
    /\ LegacyStep("admin_mark_pending")

(* ------------------------------------------------------------------ *)
(* The task store under every writer of status and completed_at        *)
(* ------------------------------------------------------------------ *)
StoreOwners == {"u1"}
StoreTitles == {<<"a", "a", " ", "b">>, <<"a", "a", " ", "b", " ", "c">>}
StoreIds == 1..MaxStoreTasks
UpdateStatuses == Statuses \cup {NoField}

TasksIdle == tasks = EmptyStore /\ prev = EmptyStore /\ resp = NoResp

(* the stored user record of the api app as it is created *)
NewLegacyUser == [failed_login_attempts |-> 0, account_locked_until |-> NoTime]

NoLegacyUser == [row |-> NewLegacyUser, ok |-> TRUE, before |-> NewLegacyUser]

LegacyIdle == legacyTasks = EmptyLegacy /\ legacyUser = NoLegacyUser

NoEntityHist == [op |-> "none", ok |-> FALSE, error |-> "none", before |-> NoTask,
                 at |-> NoTime]

NewTask(st, done) ==
    [id |-> NoId, title |-> <<"a", "a", " ", "b">>, priority |-> "medium",
     status |-> st, due_date |-> NoTime, completed_at |-> done, user_id |-> "u1",
     created_at |-> 0]

NoStats == [calculated |-> FALSE]

NoPagination == [constructed |-> FALSE]

(* the users table of the sweep: every account as create_user leaves it *)
AccountIds == {"a1", "a2"}

NoSweep == [ran |-> FALSE]

AccountsIdle ==
    /\ accounts = [a \in AccountIds |-> NewUser("active", TRUE)]
    /\ sweep = NoSweep

(* no UpdateTask request in flight *)
NoSaving ==
    [pc |-> "idle", id |-> NoId, task |-> NoTask, model |-> NoTask, outcome |-> "none",
     absent |-> FALSE, after |-> NoTask]

(* no validate_session call in flight *)
NoValidating == [pc |-> "idle", sid |-> NoId, session |-> [absent |-> TRUE]]

RaceIdle == saving = NoSaving /\ validating = NoValidating /\ terminated = {}

ValueIdle ==
    stats = NoStats /\ pagination = NoPagination /\ AccountsIdle /\ RaceIdle

EntityIdle ==
    /\ entity = NewTask("pending", NoTime)
    /\ entityHist = NoEntityHist
    /\ ValueIdle

UserIdle == user = NewUser("active", TRUE) /\ userHist = NoHist

AttemptsIdle ==
    /\ ipAttempts = [i \in Ips |-> NoEntry]
    /\ emailAttempts = [e \in Emails |-> NoEntry]

TokensIdle ==
    /\ tokenStore = [i \in TokenIds |-> NoEntry]
    /\ userTokens = [u \in AuthUsers |-> NoEntry]
    /\ nextToken = 1

SessionsIdle ==
    /\ sessionStore = [i \in SessionIds |-> NoEntry]
    /\ userSessions = [u \in AuthUsers |-> NoEntry]
    /\ nextSession = 1

AuthIdle ==
    /\ AttemptsIdle
    /\ TokensIdle
    /\ SessionsIdle
    /\ authResp = NoAuthResp
    /\ authPrev = NoAuthPrev
    /\ ResetIdle
    /\ ProcIdle

InitStore ==
    /\ now = 0
    /\ TasksIdle
    /\ LegacyIdle
    /\ EntityIdle
    /\ UserIdle
    /\ AuthIdle

NextStore ==
    \/ \E u \in StoreOwners, title \in StoreTitles :
          CreateTask(u, title, "medium", NoTime, MaxStoreTasks)
    \/ \E u \in StoreOwners, i \in StoreIds, st \in UpdateStatuses :
          TaskDetailPut(u, i, NoTitle, NoField, st, NoTime)
    \/ \E u \in StoreOwners, i \in StoreIds : TaskDetailDelete(u, i)
    \/ \E u \in StoreOwners, i \in StoreIds : BulkCompleteTasks(u, <<i>>)
    \/ \E ids \in SUBSET StoreIds, st \in Statuses : RepoBulkUpdateStatus(ids, st)
    \/ LegacyCreate
    \/ \E i \in LegacyIds, c \in {"true", "false", NoField} : LegacyUpdate(i, c)
    \/ \E ids \in SUBSET LegacyIds : LegacyBulkComplete(ids)
    \/ \E ids \in SUBSET LegacyIds : AdminMarkCompleted(ids)
    \/ \E ids \in SUBSET LegacyIds : AdminMarkPending(ids)
    \/ Tick(1, MaxTicks) /\ UNCHANGED <<userVars, authVars>>

SpecStore == InitStore /\ [][NextStore]_vars

(* C1: in every reachable state of the layered store and of the legacy *)
(* records, a task has a completion timestamp exactly when its status  *)
(* is completed (legacy: exactly when its completed flag is true).     *)
C1_CompletedAtIffCompleted ==
    /\ \A i \in TaskIds : tasks[i] # NoTask =>
          ((tasks[i].completed_at # NoTime) <=> (tasks[i].status = "completed"))
    /\ \A i \in LegacyIds : legacyTasks[i] # NoTask =>
          ((legacyTasks[i].completed_at # NoTime) <=> legacyTasks[i].completed)


(* A bulk completion has auto-completed a related task, both records   *)
(* are completed and stamped, and a legacy record is completed too.    *)
C1_Witness ==
    /\ resp.op = "bulk_complete"
    /\ resp.auto_completed_count = 1
    /\ \A i \in StoreIds :
          /\ tasks[i] # NoTask
          /\ tasks[i].status = "completed"
          /\ tasks[i].completed_at # NoTime
    /\ \E i \in LegacyIds :
          /\ legacyTasks[i] # NoTask
          /\ legacyTasks[i].completed
          /\ legacyTasks[i].completed_at # NoTime


(* ------------------------------------------------------------------ *)
(* One User entity under its methods.  userHist.streak counts the      *)
(* increment_failed_login calls made in a row since the user was last  *)
(* unlocked with no failed attempt.                                    *)
(* ------------------------------------------------------------------ *)
AtZero(u, t) == ~is_account_locked(u, t) /\ u.failed_login_attempts = 0

UserStep(op, r) ==
    /\ user' = r.user
    /\ userHist' = [op |-> op, ok |-> r.ok, counting |-> AtZero(r.user, now), streak |-> 0,
                    error |-> r.error, before |-> user, level |-> "none"]
    /\ UNCHANGED <<now, taskVars, legacyVars, entityVars, authVars>>

IncrementFailedLogin ==
    /\ user.failed_login_attempts < MaxFailed
    /\ LET r == increment_failed_login(user, now)
       IN  /\ user' = r.user
           /\ userHist' = [op |-> "increment_failed_login", ok |-> r.ok,
                           counting |-> userHist.counting /\ userHist.streak < MAX_ATTEMPTS,
                           streak |-> IF userHist.counting /\ userHist.streak < MAX_ATTEMPTS
                                      THEN userHist.streak + 1 ELSE 0,
                           error |-> r.error, before |-> user, level |-> "none"]
    /\ UNCHANGED <<now, taskVars, legacyVars, entityVars, authVars>>

ResetFailedLogin == UserStep("reset_failed_login", reset_failed_login(user))

LockAccount == UserStep("lock_account", lock_account(user, now))

UnlockAccount == UserStep("unlock_account", unlock_account(user))

VerifyEmail == UserStep("verify_email", verify_email(user))

UpdateLastLogin == UserStep("update_last_login", update_last_login(user, now))

Deactivate == UserStep("deactivate", deactivate(user))

Activate == UserStep("activate", activate(user))

(* Time passes over the entity: a lock may run out *)
UserTick ==
    /\ UNCHANGED authVars
    /\ Tick(LOCK_MINUTES, LOCK_MINUTES * MaxTicks)
    /\ userHist' = [userHist EXCEPT
           !.op = "tick", !.error = "none", !.before = user, !.level = "none",
           !.counting = @ \/ AtZero(user, now + LOCK_MINUTES),
           !.streak = IF userHist.counting THEN @ ELSE 0]
    /\ UNCHANGED user

InitUser ==
    /\ now = 0
    /\ TasksIdle
    /\ LegacyIdle
    /\ EntityIdle
    /\ \E st \in {"active", "pending_verification"}, v \in BOOLEAN : user = NewUser(st, v)
    /\ userHist = NoHist
    /\ AuthIdle

NextUser ==
    \/ IncrementFailedLogin
    \/ ResetFailedLogin
    \/ LockAccount
    \/ UnlockAccount
    \/ VerifyEmail
    \/ UpdateLastLogin
    \/ Deactivate
    \/ Activate
    \/ UserTick

SpecUser == InitUser /\ [][NextUser]_vars

(* C2: counted from an unlocked user with no failed attempt, each of   *)
(* the first four increment_failed_login calls in a row leaves the     *)
(* account unlocked, and the fifth locks it with failed_login_attempts *)
(* equal to 5.                                                         *)
C2_FifthFailureLocks ==
    (userHist.op = "increment_failed_login" /\ userHist.counting) =>
        /\ user.failed_login_attempts = userHist.streak
        /\ userHist.streak < MAX_ATTEMPTS => ~is_account_locked(user, now)
        /\ userHist.streak = MAX_ATTEMPTS =>
              /\ is_account_locked(user, now)
              /\ user.failed_login_attempts = 5

(* The fifth call in a row has just locked the account *)
C2_Witness ==
    /\ userHist.op = "increment_failed_login"
    /\ userHist.counting
    /\ userHist.streak = 5
    /\ userHist.ok
    /\ is_account_locked(user, now)


(* ------------------------------------------------------------------ *)
(* Login (LoginUseCase.execute) against the one registered account     *)
(* ------------------------------------------------------------------ *)
REGISTERED_EMAIL == "e1"
REGISTERED_ID == "u1"

(* UserDomainService._verify_password *)
verify_password(pw) == pw = "good"

(* UserDomainService.authenticate_user: what it returns or raises, and *)
(* the user as saved                                                   *)
authenticate_user(u, email, pw, t) ==
    IF EmailLower(email) # REGISTERED_EMAIL
    THEN [result |-> "none", user |-> u]
    ELSE IF is_account_locked(u, t)
    THEN [result |-> "account_locked", user |-> u]
    ELSE IF ~can_login(u, t)
    THEN [result |-> "account_inactive", user |-> u]
    ELSE IF ~verify_password(pw)
    THEN [result |-> "none", user |-> increment_failed_login(u, t).user]
    ELSE [result |-> "user", user |-> update_last_login(u, t).user]

LoginRejected(email, ip, reason) ==
    /\ RecordAttempt(Attempt(email, ip, FALSE, reason, now))
    /\ authResp' = [NoAuthResp EXCEPT !.op = "login", !.email = email, !.ip = ip,
                                      !.error = reason]
    /\ UNCHANGED <<tokenVars, sessionVars>>

LoginAccepted(email, ip) ==
    /\ nextToken + 1 <= MaxTokens
    /\ nextSession <= MaxSessions
    /\ LET tk == generate_jwt_tokens(tokenStore, userTokens, REGISTERED_ID, nextToken, now)
           se == save_session(sessionStore, userSessions, nextSession,
                              AuthSession(REGISTERED_ID, now), now)
       IN  /\ tokenStore' = tk.tokenStore
           /\ userTokens' = tk.userTokens
           /\ sessionStore' = se.sessionStore
           /\ userSessions' = se.userSessions
    /\ nextToken' = nextToken + 2
    /\ nextSession' = nextSession + 1
    /\ RecordAttempt(Attempt(email, ip, TRUE, "none", now))
    /\ authResp' = [NoAuthResp EXCEPT !.op = "login", !.email = email, !.ip = ip,
                       !.user = REGISTERED_ID, !.success = TRUE, !.error = "ok",
                       !.access = nextToken, !.refresh = nextToken + 1,
                       !.session = nextSession]

Login(email, ip, pw) ==
    /\ AttemptsRecorded < MaxAttempts
    /\ authPrev' = [ip |-> ipAttempts, email |-> emailAttempts]
    /\ IF is_ip_rate_limited(ipAttempts, ip, now)
       THEN LoginRejected(email, ip, "ip_rate_limited") /\ UNCHANGED user
       ELSE IF is_email_rate_limited(emailAttempts, email, now)
       THEN LoginRejected(email, ip, "email_rate_limited") /\ UNCHANGED user
       ELSE LET r == authenticate_user(user, email, pw, now)
            IN  /\ user' = r.user
                /\ IF r.result = "user"
                   THEN LoginAccepted(email, ip)
                   ELSE LoginRejected(email, ip,
                            IF r.result = "none" THEN "invalid_credentials" ELSE r.result)
    /\ UNCHANGED <<now, taskVars, legacyVars, entityVars, userHist, authSideVars>>

(* Time passes over the cache *)
AuthTick(d, limit) ==
    /\ Tick(d, limit)
    /\ authResp' = [NoAuthResp EXCEPT !.op = "tick"]
    /\ authPrev' = NoAuthPrev
    /\ UNCHANGED <<userVars, attemptVars, tokenVars, sessionVars, authSideVars>>

(* ------------------------------------------------------------------ *)
(* Logins under the rate limits                                        *)
(* ------------------------------------------------------------------ *)
RateRequests ==
    {<<"e1", "ip1", "bad">>, <<"e2", "ip1", "bad">>, <<"e1", "ip2", "good">>,
     <<"E1", "ip2", "bad">>}

InitRate ==
    /\ now = 0
    /\ TasksIdle
    /\ LegacyIdle
    /\ EntityIdle
    /\ UserIdle
    /\ AuthIdle

NextRate ==
    \/ \E rq \in RateRequests : Login(rq[1], rq[2], rq[3])
    \/ \E d \in {WINDOW_MINUTES, WINDOW_MINUTES + 1} :
          AuthTick(d, (WINDOW_MINUTES + 1) * MaxTicks)

SpecRate == InitRate /\ [][NextRate]_vars


(* The failed attempts an attempt list held that are at most 15 minutes old *)
C3_FailedRecent(e) ==
    IF ~e.present THEN 0
    ELSE CountIn({a \in BagToSet(e.val) :
                     ~a.success /\ now - a.attempted_at <= WINDOW_MINUTES}, e.val)

(* C3: a login from an IP with 10 or more failed attempts recorded in  *)
(* the last 15 minutes is rejected whichever email it names, and a     *)
(* login for an email with 5 or more failed attempts recorded in the   *)
(* last 15 minutes is rejected whichever IP it comes from; no token or *)
(* session is issued to it.                                            *)
C3_RateLimitsReject ==
    (authResp.op = "login" /\
        (\/ C3_FailedRecent(authPrev.ip[authResp.ip]) >= 10
         \/ C3_FailedRecent(authPrev.email[authResp.email]) >= 5)) =>
        /\ ~authResp.success
        /\ authResp.error \in {"ip_rate_limited", "email_rate_limited"}
        /\ authResp.access = NoId
        /\ authResp.refresh = NoId
        /\ authResp.session = NoId

(* A login from the limited IP naming an email never tried before has  *)
(* just been rejected.                                                 *)
C3_Witness ==
    /\ authResp.op = "login"
    /\ authResp.error = "ip_rate_limited"
    /\ C3_FailedRecent(authPrev.ip[authResp.ip]) >= 10
    /\ ~authPrev.email[authResp.email].present

(* A login with the right password for the limited email, from an IP   *)
(* that made no attempt before, has just been rejected.                *)
C3_WitnessEmail ==
    /\ authResp.op = "login"
    /\ authResp.error = "email_rate_limited"
    /\ authResp.email = REGISTERED_EMAIL
    /\ C3_FailedRecent(authPrev.email[authResp.email]) >= 5
    /\ ~authPrev.ip[authResp.ip].present


(* ------------------------------------------------------------------ *)
(* Bulk completion over the tasks of two owners                        *)
(* ------------------------------------------------------------------ *)
BulkIds == 1..MaxBulkTasks
(* Lists of distinct ids, and one list naming an id twice *)
BulkLists ==
    {q \in UNION {[1..n -> BulkIds] : n \in 1..MaxBulkLen} :
        \A i, j \in 1..Len(q) : q[i] = q[j] => i = j}
    \cup {<<1, 1>>}

InitBulk ==
    /\ now = 0
    /\ TasksIdle
    /\ LegacyIdle
    /\ EntityIdle
    /\ UserIdle
    /\ AuthIdle

NextBulk ==
    \/ \E u \in Owners, title \in StoreTitles :
          CreateTask(u, title, "medium", NoTime, MaxBulkTasks)
    \/ \E u \in Owners, ids \in BulkLists : BulkCompleteTasks(u, ids)

SpecBulk == InitBulk /\ [][NextBulk]_vars

(* The ids of the last bulk request that named a task of its caller *)
C4_Owned ==
    {i \in SeqToSet(resp.ids) : prev[i] # NoTask /\ prev[i].user_id = resp.user}

(* The tasks the last request changed *)
C4_Changed == {i \in TaskIds : tasks[i] # prev[i]}

(* C4 as stated: a bulk completion changes only the caller-owned tasks *)
(* of its list, reports their number as the updated count, and does    *)
(* not fail because of the other ids.                                  *)
C4_CountIsOwnedInList ==
    resp.op = "bulk_complete" /\ resp.ids # <<>> =>
        /\ resp.code = 200
        /\ C4_Changed \subseteq C4_Owned
        /\ resp.updated_count = Cardinality(C4_Owned)

(* C4, amended: a bulk completion never fails because of foreign or    *)
(* absent ids and never changes a task of another owner; every         *)
(* caller-owned task of the list ends completed; the updated count is  *)
(* the number of caller-owned listed tasks it completed itself (tasks  *)
(* already completed, or auto-completed as related before their turn,  *)
(* are not counted), and together with the auto-completed count it is  *)
(* the number of tasks changed, all of them the caller's own.          *)
C4_BulkCompletesOwnedOnly ==
    resp.op = "bulk_complete" /\ resp.ids # <<>> =>
        /\ resp.code = 200
        /\ \A i \in TaskIds :
              (prev[i] = NoTask \/ prev[i].user_id # resp.user) => tasks[i] = prev[i]
        /\ \A i \in C4_Owned : tasks[i].status = "completed"
        /\ \A i \in C4_Changed :
              /\ prev[i].status # "completed"
              /\ tasks[i] = [prev[i] EXCEPT !.status = "completed", !.completed_at = now]
        /\ resp.updated_count + resp.auto_completed_count = Cardinality(C4_Changed)
        /\ resp.updated_count <= Cardinality({i \in C4_Owned : prev[i].status # "completed"})
        /\ (\E i \in C4_Owned : prev[i].status # "completed") => resp.updated_count >= 1

(* A list naming a task of the caller, a task of another owner and an  *)
(* absent id has completed the caller's task and left the other one.   *)
C4_Witness ==
    /\ resp.op = "bulk_complete"
    /\ resp.updated_count = 1
    /\ C4_Owned # {}
    /\ \E i \in SeqToSet(resp.ids) : prev[i] = NoTask
    /\ \E i \in SeqToSet(resp.ids) :
          /\ prev[i] # NoTask
          /\ prev[i].user_id # resp.user
          /\ prev[i].status = "pending"
          /\ tasks[i] = prev[i]

(* ------------------------------------------------------------------ *)
(* Password reset: handlers                                            *)
(* ------------------------------------------------------------------ *)
ResetStep ==
    UNCHANGED <<now, taskVars, legacyVars, entityVars, userVars, attemptVars, tokenVars,
                sessionVars, authResp, authPrev, procVars>>

(* UserDomainService.register_new_user: the address is stored lower-cased *)
RegisterUser(email) ==
    /\ ~(EmailLower(email) \in layeredUsers)
    /\ layeredUsers' = layeredUsers \cup {EmailLower(email)}
    /\ resetResp' = [NoResetResp EXCEPT !.flow = "register", !.email = email]
    /\ UNCHANGED <<legacyUsers, resetIssued, resetSeen>>
    /\ ResetStep

(* UserRegistrationView: a new active row of the legacy user table *)
LegacyRegisterUser(email) ==
    /\ legacyUsers[email] = "none"
    /\ legacyUsers' = [legacyUsers EXCEPT ![email] = "active"]
    /\ resetResp' = [NoResetResp EXCEPT !.flow = "legacy_register", !.email = email]
    /\ UNCHANGED <<layeredUsers, resetIssued, resetSeen>>
    /\ ResetStep

(* UserAdmin: is_active is an editable field of an existing row *)
AdminSetActive(email, active) ==
    /\ legacyUsers[email] # "none"
    /\ legacyUsers' =
         [legacyUsers EXCEPT ![email] = IF active THEN "active" ELSE "inactive"]
    /\ resetResp' = [NoResetResp EXCEPT !.flow = "admin", !.email = email]
    /\ UNCHANGED <<layeredUsers, resetIssued, resetSeen>>
    /\ ResetStep

(* request_password_reset (layered view) with a well-formed address *)
RequestPasswordReset(email) ==
    LET result == PasswordResetRequestUC(layeredUsers, email)
        body == ResetBody(result.message)
        made == result.token # NoField
    IN /\ resetResp' = [flow |-> "layered", email |-> email, status |-> 200,
                        body |-> body]
       /\ resetIssued' = IF made THEN resetIssued \cup {<<"layered", email>>}
                         ELSE resetIssued
       /\ resetSeen' = resetSeen \cup
            {ResetSeen("layered", find_by_email(layeredUsers, email) # "none",
                       200, body, made)}
       /\ UNCHANGED <<layeredUsers, legacyUsers>>
       /\ ResetStep

(* password_reset_request (legacy endpoint) with a well-formed address *)
LegacyPasswordResetRequest(email) ==
    LET found == legacy_get_active(legacyUsers, email)
        made == found # "none"
        body == ResetBody(LEGACY_RESET_MESSAGE)
    IN /\ resetResp' = [flow |-> "legacy", email |-> email, status |-> 200,
                        body |-> body]
       /\ resetIssued' = IF made THEN resetIssued \cup {<<"legacy", email>>}
                         ELSE resetIssued
       /\ resetSeen' = resetSeen \cup
            {ResetSeen("legacy", legacy_exists(legacyUsers, email), 200, body,
                       made)}
       /\ UNCHANGED <<layeredUsers, legacyUsers>>
       /\ ResetStep

InitReset ==
    /\ now = 0
    /\ TasksIdle
    /\ LegacyIdle
    /\ EntityIdle
    /\ UserIdle
    /\ AuthIdle

NextReset ==
    \/ \E e \in Emails : RegisterUser(e)
    \/ \E e \in StoredEmails : LegacyRegisterUser(e)
    \/ \E e \in StoredEmails, a \in BOOLEAN : AdminSetActive(e, a)
    \/ \E e \in Emails : RequestPasswordReset(e)
    \/ \E e \in Emails : LegacyPasswordResetRequest(e)

SpecReset == InitReset /\ [][NextReset]_vars

(* an account exists for the address a token was issued for *)
C5_AccountOf(p) ==
    IF p[1] = "layered" THEN find_by_email(layeredUsers, p[2]) # "none"
    ELSE legacy_exists(legacyUsers, p[2])

(* C5: every password-reset request with a well-formed address is
   answered 200 with a body that holds the message only, the same body
   for an address with an account and for one without, on each of the
   two endpoints; a reset token is issued only when the account exists. *)
C5_ResetDoesNotReveal ==
    /\ \A a \in resetSeen, b \in resetSeen :
          a.flow = b.flow => a.status = 200 /\ b.status = 200 /\ a.body = b.body
    /\ \A a \in resetSeen : DOMAIN a.body = {"message"} /\ (a.issued => a.existed)
    /\ \A p \in resetIssued : C5_AccountOf(p)

C5_Witness ==
    /\ \E a \in resetSeen, b \in resetSeen :
          /\ a.flow = "layered" /\ b.flow = "layered"
          /\ a.existed /\ a.issued /\ ~b.existed /\ ~b.issued
    /\ \E a \in resetSeen, b \in resetSeen :
          /\ a.flow = "legacy" /\ b.flow = "legacy"
          /\ a.existed /\ a.issued /\ ~b.existed /\ ~b.issued
    /\ resetResp.flow = "legacy" /\ resetResp.status = 200

(* ------------------------------------------------------------------ *)
(* Login, refresh and logout as interleaved cache operations           *)
(* ------------------------------------------------------------------ *)
ProcStep ==
    UNCHANGED <<now, taskVars, legacyVars, entityVars, userHist, authPrev, resetVars>>

(* the token a worker is saving at its position *)
SavingId(w) == IF w.pc \in {"refresh_set", "refresh_get", "refresh_put"}
               THEN w.refresh ELSE w.access

SavingToken(w) ==
    IF w.pc \in {"refresh_set", "refresh_get", "refresh_put"}
    THEN AuthToken("refresh", REGISTERED_ID, w.at, REFRESH_MINUTES)
    ELSE AuthToken("access", REGISTERED_ID, w.at, ACCESS_MINUTES)

(* LoginUseCase.execute up to generate_jwt_tokens: the limits, the
   password check, and the two tokens encoded *)
LoginBegin(p, email, ip) ==
    /\ procs[p].pc = "idle"
    /\ nextToken + 1 <= MaxTokens
    /\ nextSession <= MaxSessions
    /\ ~is_ip_rate_limited(ipAttempts, ip, now)
    /\ ~is_email_rate_limited(emailAttempts, email, now)
    /\ LET r == authenticate_user(user, email, "good", now)
       IN  /\ r.result = "user"
           /\ user' = r.user
    /\ procs' = [procs EXCEPT ![p] =
                    [NoProc EXCEPT !.op = "login", !.pc = "access_set",
                                   !.access = nextToken, !.refresh = nextToken + 1,
                                   !.at = now]]
    /\ nextToken' = nextToken + 2
    /\ UNCHANGED <<tokenStore, userTokens, sessionVars, attemptVars, authResp,
                   issued, revokedDue, staleUse>>
    /\ ProcStep

(* save_token: cache.set of the token under its own key *)
SaveTokenSet(p) ==
    LET w == procs[p]
    IN  /\ w.pc \in {"access_set", "refresh_set"}
        /\ tokenStore' = SetToken(tokenStore, SavingId(w), SavingToken(w))
        /\ procs' = [procs EXCEPT ![p].pc =
                        IF w.pc = "access_set" THEN "access_get" ELSE "refresh_get"]
        /\ UNCHANGED <<userTokens, nextToken, sessionVars, attemptVars, authResp,
                       user, issued, revokedDue, staleUse>>
        /\ ProcStep

(* save_token: cache.get of the user's tracking list *)
SaveTokenGet(p) ==
    LET w == procs[p]
    IN  /\ w.pc \in {"access_get", "refresh_get"}
        /\ procs' = [procs EXCEPT
                       ![p].list = GetUserTokens(userTokens, REGISTERED_ID, now),
                       ![p].pc = IF w.pc = "access_get" THEN "access_put"
                                 ELSE "refresh_put"]
        /\ UNCHANGED <<tokenVars, sessionVars, attemptVars, authResp, user,
                       issued, revokedDue, staleUse>>
        /\ ProcStep

(* save_token: cache.set of the list read, with the token appended; a
   refresh request returns its new access token after this write *)
SaveTokenPut(p) ==
    LET w == procs[p]
    IN  /\ w.pc \in {"access_put", "refresh_put"}
        /\ userTokens' = SetUserTokens(userTokens, REGISTERED_ID, w.list,
                                       SavingId(w), now)
        /\ IF w.op = "refresh"
           THEN /\ procs' = [procs EXCEPT ![p] = NoProc]
                /\ issued' = issued \cup {w.access}
                /\ authResp' = [NoAuthResp EXCEPT !.op = "refresh",
                                   !.user = REGISTERED_ID, !.success = TRUE,
                                   !.error = "ok", !.access = w.access]
           ELSE /\ procs' = [procs EXCEPT ![p].pc =
                               IF w.pc = "access_put" THEN "refresh_set"
                               ELSE "session"]
                /\ UNCHANGED <<issued, authResp>>
        /\ UNCHANGED <<tokenStore, nextToken, sessionVars, attemptVars, user,
                       revokedDue, staleUse>>
        /\ ProcStep

(* LoginUseCase.execute after generate_jwt_tokens: create_session, the
   successful attempt recorded, the response *)
LoginFinish(p, email, ip) ==
    LET w == procs[p]
        se == save_session(sessionStore, userSessions, nextSession,
                           AuthSession(REGISTERED_ID, now), now)
    IN  /\ w.pc = "session"
        /\ AttemptsRecorded < MaxAttempts
        /\ sessionStore' = se.sessionStore
        /\ userSessions' = se.userSessions
        /\ nextSession' = nextSession + 1
        /\ RecordAttempt(Attempt(email, ip, TRUE, "none", now))
        /\ issued' = issued \cup {w.access, w.refresh}
        /\ authResp' = [NoAuthResp EXCEPT !.op = "login", !.email = email, !.ip = ip,
                           !.user = REGISTERED_ID, !.success = TRUE, !.error = "ok",
                           !.access = w.access, !.refresh = w.refresh,
                           !.session = nextSession]
        /\ procs' = [procs EXCEPT ![p] = NoProc]
        /\ UNCHANGED <<tokenVars, user, revokedDue, staleUse>>
        /\ ProcStep

(* RefreshTokenUseCase.execute: refresh_access_token validates the token
   presented and encodes a new access token *)
RefreshBegin(p, rt) ==
    LET payload == validate_jwt_token(tokenStore, rt, now)
        accepted == payload # NoToken /\ payload.token_type = "refresh"
    IN  /\ procs[p].pc = "idle"
        /\ rt \in issued
        /\ IF accepted
           THEN /\ nextToken <= MaxTokens
                /\ procs' = [procs EXCEPT ![p] =
                                [NoProc EXCEPT !.op = "refresh", !.pc = "access_set",
                                               !.access = nextToken, !.at = now]]
                /\ nextToken' = nextToken + 1
                /\ staleUse' = IF rt \in revokedDue THEN staleUse \cup {rt}
                               ELSE staleUse
                /\ UNCHANGED authResp
           ELSE /\ authResp' = [NoAuthResp EXCEPT !.op = "refresh",
                                   !.error = "Invalid or expired refresh token"]
                /\ UNCHANGED <<procs, nextToken, staleUse>>
        /\ UNCHANGED <<tokenStore, userTokens, sessionVars, attemptVars, user,
                       issued, revokedDue>>
        /\ ProcStep

(* logout_user: the named session, or all sessions, terminated; snap is
   what had been issued when the logout began *)
LogoutBegin(p, sid, all) ==
    LET se == terminate_all_user_sessions(sessionStore, userSessions,
                                          REGISTERED_ID, now)
    IN  /\ procs[p].pc = "idle"
        /\ issued # {}
        /\ IF all
           THEN /\ sessionStore' = se.sessionStore
                /\ userSessions' = se.userSessions
           ELSE /\ sessionStore' = terminate_session(sessionStore, sid, now)
                /\ UNCHANGED userSessions
        /\ procs' = [procs EXCEPT ![p] =
                        [NoProc EXCEPT !.op = "logout", !.pc = "revoke_get",
                                       !.snap = issued]]
        /\ UNCHANGED <<tokenVars, nextSession, attemptVars, authResp, user,
                       issued, revokedDue, staleUse>>
        /\ ProcStep

(* revoke_all_user_tokens: cache.get of the tracking list *)
RevokeGet(p) ==
    /\ procs[p].pc = "revoke_get"
    /\ procs' = [procs EXCEPT
                   ![p].list = GetUserTokens(userTokens, REGISTERED_ID, now),
                   ![p].pc = "revoke_delete"]
    /\ UNCHANGED <<tokenVars, sessionVars, attemptVars, authResp, user,
                   issued, revokedDue, staleUse>>
    /\ ProcStep

(* revoke_all_user_tokens: every token of the list read and the list
   itself deleted; logout_user returns *)
RevokeDelete(p) ==
    LET w == procs[p]
    IN  /\ w.pc = "revoke_delete"
        /\ tokenStore' = [i \in DOMAIN tokenStore |->
                            IF i \in SeqToSet(w.list) THEN NoEntry ELSE tokenStore[i]]
        /\ userTokens' = [userTokens EXCEPT ![REGISTERED_ID] = NoEntry]
        /\ revokedDue' = revokedDue \cup w.snap
        /\ authResp' = [NoAuthResp EXCEPT !.op = "logout", !.user = REGISTERED_ID,
                                          !.success = TRUE, !.error = "ok"]
        /\ procs' = [procs EXCEPT ![p] = NoProc]
        /\ UNCHANGED <<nextToken, sessionVars, attemptVars, user, issued, staleUse>>
        /\ ProcStep

InitLogout ==
    /\ now = 0
    /\ TasksIdle
    /\ LegacyIdle
    /\ EntityIdle
    /\ UserIdle
    /\ AuthIdle

NextLogout ==
    \/ \E p \in Procs : LoginBegin(p, REGISTERED_EMAIL, "ip1")
    \/ \E p \in Procs : SaveTokenSet(p)
    \/ \E p \in Procs : SaveTokenGet(p)
    \/ \E p \in Procs : SaveTokenPut(p)
    \/ \E p \in Procs : LoginFinish(p, REGISTERED_EMAIL, "ip1")
    \/ \E p \in Procs, rt \in TokenIds : RefreshBegin(p, rt)
    \/ \E p \in Procs, sid \in SessionIds, all \in BOOLEAN : LogoutBegin(p, sid, all)
    \/ \E p \in Procs : RevokeGet(p)
    \/ \E p \in Procs : RevokeDelete(p)
    \/ AuthTick(HOUR, HOUR * MaxTicks)

SpecLogout == InitLogout /\ [][NextLogout]_vars

(* C6: once a logout has returned, every token that had been issued to
   the user when that logout began fails validate_jwt_token, and no
   refresh request accepts such a token. *)
C6_LogoutRevokesIssued ==
    /\ \A t \in revokedDue : validate_jwt_token(tokenStore, t, now) = NoToken
    /\ staleUse = {}

(* ------------------------------------------------------------------ *)
(* Updates of completed tasks over the 24 hour window                  *)
(* ------------------------------------------------------------------ *)
UpdateOwners == {"u1"}
UpdateTitles == {<<"a", "a", " ", "b">>}
UpdateIds == 1..MaxStoreTasks
UpdateTimes ==
    {0, UNCOMPLETE_WINDOW - HOUR + 1, UNCOMPLETE_WINDOW, UNCOMPLETE_WINDOW + 1}

InitUpdate ==
    /\ now = 0
    /\ TasksIdle
    /\ LegacyIdle
    /\ EntityIdle
    /\ UserIdle
    /\ AuthIdle

NextUpdate ==
    \/ \E u \in UpdateOwners, title \in UpdateTitles :
          CreateTask(u, title, "medium", NoTime, MaxStoreTasks)
    \/ \E u \in UpdateOwners, i \in UpdateIds, st \in {"completed", "pending", NoField} :
          TaskDetailPut(u, i, NoTitle, NoField, st, NoTime)
    \/ \E t \in UpdateTimes :
          /\ t > now
          /\ Tick(t - now, UNCOMPLETE_WINDOW + 1)
          /\ UNCHANGED <<userVars, authVars>>

SpecUpdate == InitUpdate /\ [][NextUpdate]_vars

(* the last request was an update, by its owner, setting a completed
   task back to pending *)
C7_Uncomplete ==
    /\ resp.op = "put" /\ resp.req_status = "pending"
    /\ prev[resp.id] # NoTask
    /\ prev[resp.id].user_id = resp.user
    /\ prev[resp.id].status = "completed"

(* C7: an update that sets a completed task back to pending is rejected
   with the store left as it was when the task was completed more than
   24 hours ago; when it was completed 1 hour ago (or at any time up to
   24 hours ago) the update succeeds and the stored task is pending
   with completed_at absent. *)
C7_UncompleteWindow ==
    C7_Uncomplete =>
        IF now - prev[resp.id].completed_at > UNCOMPLETE_WINDOW
        THEN /\ resp.code = 400
             /\ resp.prefix = "Validation failed"
             /\ "Cannot uncomplete a task that was completed more than 24 hours ago"
                    \in resp.msgs
             /\ tasks = prev
        ELSE /\ resp.code = 200
             /\ tasks[resp.id].status = "pending"
             /\ tasks[resp.id].completed_at = NoTime
             /\ \A i \in TaskIds : i # resp.id => tasks[i] = prev[i]

(* a rejected update of a task completed more than 24 hours ago, next to
   a task of the same owner that an update set back to pending one hour
   after its completion *)
C7_Witness ==
    /\ C7_Uncomplete
    /\ now - prev[resp.id].completed_at > UNCOMPLETE_WINDOW
    /\ resp.code = 400
    /\ \E i \in TaskIds :
          /\ i # resp.id /\ tasks[i] # NoTask
          /\ tasks[i].status = "pending" /\ tasks[i].completed_at = NoTime

C7_WitnessRecent ==
    /\ C7_Uncomplete
    /\ now - prev[resp.id].completed_at = HOUR
    /\ resp.code = 200
    /\ tasks[resp.id].status = "pending"

(* ------------------------------------------------------------------ *)
(* Creation under the limit of urgent tasks                            *)
(* ------------------------------------------------------------------ *)
UrgentTitles == {<<"a", "a", "a">>, <<"b", "b", "b">>, <<"c", "c", "c">>}
UrgentRequests ==
    {<<"u1", title, "urgent">> : title \in UrgentTitles}
    \cup {<<"u1", <<"a", "a", "a">>, "high">>, <<"u2", <<"a", "a", "a">>, "urgent">>}

InitUrgent ==
    /\ now = 0
    /\ TasksIdle
    /\ LegacyIdle
    /\ EntityIdle
    /\ UserIdle
    /\ AuthIdle

NextUrgent ==
    \/ \E q \in UrgentRequests : CreateTask(q[1], q[2], q[3], NoTime, MaxTasks)
    \/ \E u \in Owners, i \in TaskIds :
          TaskDetailPut(u, i, NoTitle, NoField, "completed", NoTime)

SpecUrgent == InitUrgent /\ [][NextUrgent]_vars

(* the owner's urgent tasks that are not completed, before the request *)
C8_UrgentOpen(u) ==
    {i \in TaskIds : /\ prev[i] # NoTask
                     /\ prev[i].user_id = u
                     /\ prev[i].priority = "urgent"
                     /\ prev[i].status # "completed"}

(* C8: creating an urgent task for an owner who has 3 (or more) urgent
   tasks that are not completed is rejected with the validation message
   that names the limit of 3, and the store is left as it was; with
   fewer such tasks the limit message is not given. *)
C8_UrgentLimit ==
    (resp.op = "create" /\ resp.req_priority = "urgent") =>
        IF Cardinality(C8_UrgentOpen(resp.user)) >= URGENT_LIMIT
        THEN /\ resp.code = 400
             /\ resp.exc = "ValueError"
             /\ resp.prefix = "Validation failed"
             /\ "Cannot have more than 3 urgent tasks at once" \in resp.msgs
             /\ tasks = prev
        ELSE "Cannot have more than 3 urgent tasks at once" \notin resp.msgs

C8_Witness ==
    /\ resp.op = "create" /\ resp.req_priority = "urgent"
    /\ Cardinality(C8_UrgentOpen(resp.user)) = URGENT_LIMIT
    /\ resp.code = 400
    /\ "Cannot have more than 3 urgent tasks at once" \in resp.msgs
    /\ FreeIds(prev, MaxTasks) # {}

(* ------------------------------------------------------------------ *)
(* Single-task endpoints called by the owner and by another user       *)
(* ------------------------------------------------------------------ *)
DetailIds == 1..(MaxStoreTasks + 1)
DetailTitles == {<<"a", "a", " ", "b">>}

InitDetail ==
    /\ now = 0
    /\ TasksIdle
    /\ LegacyIdle
    /\ EntityIdle
    /\ UserIdle
    /\ AuthIdle

NextDetail ==
    \/ \E u \in Owners, title \in DetailTitles :
          CreateTask(u, title, "medium", NoTime, MaxStoreTasks)
    \/ \E u \in Owners, i \in DetailIds : TaskDetailGet(u, i)
    \/ \E u \in Owners, i \in DetailIds, st \in {"completed", NoField} :
          TaskDetailPut(u, i, NoTitle, NoField, st, NoTime)
    \/ \E u \in Owners, i \in DetailIds : TaskDetailDelete(u, i)

SpecDetail == InitDetail /\ [][NextDetail]_vars

(* C9: a retrieve, update or delete of a task of another owner is
   answered 403 and changes nothing, and one of an absent id is answered
   404. *)
C9_OwnerScoped ==
    resp.op \in {"get", "put", "delete"} =>
        /\ prev[resp.id] = NoTask => resp.code = 404 /\ tasks = prev
        /\ (prev[resp.id] # NoTask /\ prev[resp.id].user_id # resp.user) =>
               resp.code = 403 /\ tasks = prev

(* ------------------------------------------------------------------ *)
(* The Task entity on its own                                          *)
(* ------------------------------------------------------------------ *)
EntityStep == UNCHANGED <<now, taskVars, legacyVars, userVars, authVars, valueVars>>

MarkAsCompleted ==
    LET r == mark_as_completed(entity, now)
    IN  /\ entity' = r.task
        /\ entityHist' = [op |-> "mark_as_completed", ok |-> r.ok, error |-> r.error,
                          before |-> entity, at |-> now]
        /\ EntityStep

MarkAsPending ==
    LET r == mark_as_pending(entity)
    IN  /\ entity' = r.task
        /\ entityHist' = [op |-> "mark_as_pending", ok |-> r.ok, error |-> r.error,
                          before |-> entity, at |-> now]
        /\ EntityStep

InitEntity ==
    /\ now = 0
    /\ TasksIdle
    /\ LegacyIdle
    /\ entity \in {NewTask(st, done) : st \in Statuses, done \in {NoTime, 0}}
    /\ entityHist = NoEntityHist
    /\ ValueIdle
    /\ UserIdle
    /\ AuthIdle

NextEntity ==
    \/ MarkAsCompleted
    \/ MarkAsPending
    \/ Tick(1, MaxEntityTicks) /\ UNCHANGED <<userVars, authVars>>

SpecEntity == InitEntity /\ [][NextEntity]_vars

(* C10: mark_as_completed fails on a completed task and mark_as_pending
   fails on a pending task, the task staying as it was; a successful
   mark_as_completed leaves the task completed with completed_at set,
   a successful mark_as_pending leaves it pending with completed_at
   absent. *)
C10_MarkTransitions ==
    /\ entityHist.op = "mark_as_completed" =>
          IF entityHist.before.status = "completed"
          THEN /\ ~entityHist.ok
               /\ entityHist.error = "Task is already completed"
               /\ entity = entityHist.before
          ELSE /\ entityHist.ok
               /\ entity.status = "completed"
               /\ entity.completed_at # NoTime
               /\ entity.completed_at = entityHist.at
    /\ entityHist.op = "mark_as_pending" =>
          IF entityHist.before.status = "pending"
          THEN /\ ~entityHist.ok
               /\ entityHist.error = "Task is already pending"
               /\ entity = entityHist.before
          ELSE /\ entityHist.ok
               /\ entity.status = "pending"
               /\ entity.completed_at = NoTime

C10_Witness ==
    /\ entityHist.op = "mark_as_completed"
    /\ entityHist.before.status = "completed"
    /\ entityHist.before.completed_at # NoTime
    /\ entityHist.before.completed_at < now
    /\ ~entityHist.ok
    /\ entity = entityHist.before

(* ------------------------------------------------------------------ *)
(* Construction of a Task entity (__post_init__ runs _validate)        *)
(* ------------------------------------------------------------------ *)
ConstructTitles ==
    {<<>>, <<" ", " ", " ">>, <<" ", "a", "b", " ">>, <<"a", "b", "c">>,
     <<" ", "a", " ", "b">>}
ConstructIds == {NoId, 1}
ConstructDues == {NoTime} \cup 0..MaxEntityTicks

(* Task(id=..., title=..., due_date=...): the entity is kept only when
   _validate raises nothing *)
ConstructTask(id, title, due) ==
    LET e == [NewTask("pending", NoTime) EXCEPT
                 !.id = id, !.title = title, !.due_date = due]
        r == TaskValidate(e, now)
    IN  /\ entity' = IF r = "ok" THEN e ELSE entity
        /\ entityHist' = [op |-> "construct", ok |-> r = "ok", error |-> r,
                          before |-> e, at |-> now]
        /\ EntityStep

InitConstruct ==
    /\ now = 0
    /\ TasksIdle
    /\ LegacyIdle
    /\ EntityIdle
    /\ UserIdle
    /\ AuthIdle

NextConstruct ==
    \/ \E id \in ConstructIds, title \in ConstructTitles, due \in ConstructDues :
          ConstructTask(id, title, due)
    \/ Tick(1, MaxEntityTicks) /\ UNCHANGED <<userVars, authVars>>

SpecConstruct == InitConstruct /\ [][NextConstruct]_vars

(* C11: constructing a task whose title has fewer than 3 characters once
   trimmed fails; constructing a task without an id whose due date is
   before the current time fails; constructing a task that has an id,
   a title of 3 characters or more and a past due date succeeds. *)
C11_ConstructionRules ==
    entityHist.op = "construct" =>
        LET e == entityHist.before
        IN  /\ Len(Strip(e.title)) < 3 =>
                  /\ ~entityHist.ok
                  /\ entityHist.error = "Task title must be at least 3 characters long"
            /\ (e.id = NoId /\ e.due_date # NoTime /\ e.due_date < entityHist.at) =>
                  ~entityHist.ok
            /\ (/\ e.id # NoId /\ Len(Strip(e.title)) >= 3
                /\ e.due_date # NoTime /\ e.due_date < entityHist.at) =>
                  entityHist.ok /\ entity = e

C11_Witness ==
    /\ entityHist.op = "construct"
    /\ entityHist.before.id # NoId
    /\ entityHist.before.title = <<" ", "a", " ", "b">>
    /\ entityHist.before.due_date # NoTime
    /\ entityHist.before.due_date < entityHist.at
    /\ entityHist.ok
    /\ entity = entityHist.before

(* ------------------------------------------------------------------ *)
(* TaskStatistics.calculate over lists of tasks                        *)
(* ------------------------------------------------------------------ *)
StatTask(prio, st, due) ==
    [NewTask(st, IF st = "completed" THEN 0 ELSE NoTime) EXCEPT
        !.id = 1, !.priority = prio, !.due_date = due]

StatTasks ==
    {StatTask(prio, st, due) :
        prio \in {"low", "high", "urgent"},
        st \in {"pending", "in_progress", "completed"},
        due \in {NoTime, 1}}

(* the three tasks of the example: high and completed without a due
   date, low and pending with a due date in the past, urgent and pending
   without a due date *)
StatExample ==
    <<StatTask("high", "completed", NoTime), StatTask("low", "pending", 1),
      StatTask("urgent", "pending", NoTime)>>

(* the list the statistics were last calculated over *)
StatInput == IF stats.calculated THEN stats.input ELSE <<>>

CalculateStatistics(list) ==
    /\ stats' = [calculated |-> TRUE, input |-> list, at |-> now,
                 result |-> TaskStatisticsCalculate(list, now)]
    /\ UNCHANGED <<now, taskVars, legacyVars, entity, entityHist, pagination, accountVars,
                   raceVars,
                   userVars, authVars>>

InitStats ==
    /\ now = 0
    /\ TasksIdle
    /\ LegacyIdle
    /\ EntityIdle
    /\ UserIdle
    /\ AuthIdle

NextStats ==
    \/ \E e \in StatTasks :
          /\ Len(StatInput) < MaxStatTasks
          /\ CalculateStatistics(Append(StatInput, e))
    \/ CalculateStatistics(<<>>)
    \/ CalculateStatistics(StatInput)
    \/ Tick(1, MaxEntityTicks) /\ UNCHANGED <<userVars, authVars>>

SpecStats == InitStats /\ [][NextStats]_vars

C12_Count(list, P(_)) == Cardinality({i \in 1..Len(list) : P(list[i])})

C12_Completed(e) == e.status = "completed"

C12_Overdue(e) ==
    e.due_date # NoTime /\ e.status # "completed" /\ stats.at > e.due_date

C12_High(e) == e.priority = "high" \/ e.priority = "urgent"

(* C12: TaskStatistics.calculate gives total = length of the list,
   completed = number of completed tasks, pending = total - completed,
   overdue = number of tasks that are overdue, high_priority = number of
   tasks of priority high or urgent, completion rate =
   completed / total * 100 and 0 for the empty list; the three-task
   example gives 3, 1, 2, 1, 2 and a rate of 33.33. *)
C12_Statistics ==
    stats.calculated =>
        LET r == stats.result
            l == stats.input
        IN  /\ r.total_tasks = Len(l)
            /\ r.completed_tasks = C12_Count(l, C12_Completed)
            /\ r.pending_tasks = r.total_tasks - r.completed_tasks
            /\ r.overdue_tasks = C12_Count(l, C12_Overdue)
            /\ r.high_priority_tasks = C12_Count(l, C12_High)
            /\ r.completion_rate.den > 0
            /\ IF Len(l) = 0 THEN r.completion_rate.num = 0
               ELSE r.completion_rate.num * Len(l) =
                        100 * r.completed_tasks * r.completion_rate.den
            /\ (l = StatExample /\ stats.at > 1) =>
                  /\ r.total_tasks = 3 /\ r.completed_tasks = 1
                  /\ r.pending_tasks = 2 /\ r.overdue_tasks = 1
                  /\ r.high_priority_tasks = 2
                  /\ 3333 * r.completion_rate.den <= 100 * r.completion_rate.num
                  /\ 100 * r.completion_rate.num < 3334 * r.completion_rate.den

C12_Witness ==
    /\ stats.calculated
    /\ stats.input = StatExample
    /\ stats.at = 2
    /\ stats.result.overdue_tasks = 1
    /\ stats.result.completed_tasks = 1

(* ------------------------------------------------------------------ *)
(* Pagination objects                                                  *)
(* ------------------------------------------------------------------ *)
(* Pagination(page, page_size, total_items) and its four properties read *)
ConstructPagination(page, page_size, total_items) ==
    LET r == PaginationValidate(page, page_size, total_items)
    IN  /\ pagination' =
             IF r # "ok"
             THEN [constructed |-> TRUE, ok |-> FALSE, error |-> r, page |-> page,
                   page_size |-> page_size, total_items |-> total_items]
             ELSE [constructed |-> TRUE, ok |-> TRUE, error |-> r, page |-> page,
                   page_size |-> page_size, total_items |-> total_items,
                   total_pages |-> total_pages(page_size, total_items),
                   offset |-> offset(page, page_size),
                   has_next |-> has_next(page, page_size, total_items),
                   has_previous |-> has_previous(page)]
        /\ UNCHANGED <<now, taskVars, legacyVars, entity, entityHist, stats, accountVars,
                       raceVars,
                       userVars, authVars>>

InitPagination ==
    /\ now = 0
    /\ TasksIdle
    /\ LegacyIdle
    /\ EntityIdle
    /\ UserIdle
    /\ AuthIdle

NextPagination ==
    \E page \in 0..MaxPage, page_size \in 0..MaxPageSize,
       total_items \in (0 - 1)..MaxTotalItems :
          ConstructPagination(page, page_size, total_items)

SpecPagination == InitPagination /\ [][NextPagination]_vars

(* C14: a Pagination with page >= 1, page_size >= 1 and total_items >= 0
   is constructed; its total_pages is the ceiling of
   total_items / page_size (0 for no items), its offset is
   (page - 1) * page_size, has_next holds exactly when page < total_pages
   and has_previous exactly when page > 1; total 25, size 10, page 3
   gives total_pages 3, offset 20, no next page and a previous page. *)
C14_Pagination ==
    (/\ pagination.constructed
     /\ pagination.page >= 1 /\ pagination.page_size >= 1
     /\ pagination.total_items >= 0) =>
        /\ pagination.ok
        /\ pagination.total_pages * pagination.page_size >= pagination.total_items
        /\ (pagination.total_pages - 1) * pagination.page_size < pagination.total_items
        /\ pagination.total_items = 0 => pagination.total_pages = 0
        /\ pagination.offset = (pagination.page - 1) * pagination.page_size
        /\ pagination.has_next <=> pagination.page < pagination.total_pages
        /\ pagination.has_previous <=> pagination.page > 1
        /\ (/\ pagination.total_items = 25 /\ pagination.page_size = 10
            /\ pagination.page = 3) =>
               /\ pagination.total_pages = 3 /\ pagination.offset = 20
               /\ ~pagination.has_next /\ pagination.has_previous

C14_Witness ==
    /\ pagination.constructed /\ pagination.ok
    /\ pagination.total_items = 25 /\ pagination.page_size = 10
    /\ pagination.page = 3
    /\ pagination.total_pages = 3 /\ pagination.offset = 20

(* ------------------------------------------------------------------ *)
(* The security level of the User entity                               *)
(* ------------------------------------------------------------------ *)
GetSecurityLevel ==
    /\ userHist' = [userHist EXCEPT
           !.op = "get_security_level", !.ok = TRUE, !.error = "ok",
           !.before = user, !.level = get_security_level(user, now)]
    /\ UNCHANGED <<user, now, taskVars, legacyVars, entityVars, authVars>>

NextSecurity ==
    \/ GetSecurityLevel
    \/ IncrementFailedLogin
    \/ ResetFailedLogin
    \/ LockAccount
    \/ UnlockAccount
    \/ VerifyEmail
    \/ UserTick

SpecSecurity == InitUser /\ [][NextSecurity]_vars

(* C13: get_security_level is LOCKED when the account is locked now,
   whether or not the email is verified; otherwise HIGH_RISK when
   failed_login_attempts is 3 or more; otherwise UNVERIFIED when the
   email is not verified; otherwise NORMAL. *)
C13_SecurityLevel ==
    userHist.op = "get_security_level" =>
        LET locked == user.account_locked_until # NoTime
                      /\ now < user.account_locked_until
        IN  /\ user = userHist.before
            /\ locked => userHist.level = "LOCKED"
            /\ (~locked /\ user.failed_login_attempts >= 3) =>
                  userHist.level = "HIGH_RISK"
            /\ (~locked /\ user.failed_login_attempts < 3
                /\ ~user.is_email_verified) => userHist.level = "UNVERIFIED"
            /\ (~locked /\ user.failed_login_attempts < 3
                /\ user.is_email_verified) => userHist.level = "NORMAL"

C13_Witness ==
    /\ userHist.op = "get_security_level"
    /\ userHist.level = "LOCKED"
    /\ ~user.is_email_verified
    /\ user.failed_login_attempts >= 3
    /\ now < user.account_locked_until

(* C16: activate() on a user who is not active yet and whose email is
   not verified fails with "Cannot activate user with unverified email"
   and leaves the status as it was, so the user does not become ACTIVE. *)
C16_ActivateNeedsVerifiedEmail ==
    (/\ userHist.op = "activate"
     /\ userHist.before.status # "active"
     /\ ~userHist.before.is_email_verified) =>
        /\ ~userHist.ok
        /\ userHist.error = "Cannot activate user with unverified email"
        /\ user.status = userHist.before.status

(* ------------------------------------------------------------------ *)
(* Token refresh and the logout endpoint, one request at a time        *)
(* ------------------------------------------------------------------ *)
(* refresh_access_token without the token_type test *)
refresh_access_token_any_type(ts, ut, rt, id, t) ==
    LET payload == validate_jwt_token(ts, rt, t)
    IN  IF payload = NoToken
        THEN [ok |-> FALSE, tokenStore |-> ts, userTokens |-> ut]
        ELSE LET s == save_token(ts, ut, id,
                                 AuthToken("access", payload.user_id, t, ACCESS_MINUTES), t)
             IN  [ok |-> TRUE, tokenStore |-> s.tokenStore, userTokens |-> s.userTokens]

(* AuthenticationDomainService.refresh_access_token: id is the token
   minted when the refresh token is accepted *)
refresh_access_token(ts, ut, rt, id, t) ==
    LET payload == validate_jwt_token(ts, rt, t)
    IN  IF payload = NoToken \/ payload.token_type # "refresh"
        THEN [ok |-> FALSE, tokenStore |-> ts, userTokens |-> ut]
        ELSE LET s == save_token(ts, ut, id,
                                 AuthToken("access", payload.user_id, t, ACCESS_MINUTES), t)
             IN  [ok |-> TRUE, tokenStore |-> s.tokenStore, userTokens |-> s.userTokens]

(* The caches as a request found them *)
AuthSnapshot ==
    [ip |-> ipAttempts, email |-> emailAttempts, tokens |-> tokenStore,
     sessions |-> sessionStore, at |-> now]

(* refresh_token view over RefreshTokenUseCase.execute *)
RefreshToken(rt) ==
    LET r == refresh_access_token(tokenStore, userTokens, rt, nextToken, now)
    IN  /\ r.ok => nextToken <= MaxTokens
        /\ tokenStore' = r.tokenStore
        /\ userTokens' = r.userTokens
        /\ nextToken' = IF r.ok THEN nextToken + 1 ELSE nextToken
        /\ authPrev' = AuthSnapshot
        /\ authResp' = IF r.ok
                       THEN [NoAuthResp EXCEPT !.op = "refresh", !.success = TRUE,
                                !.error = "ok", !.refresh = rt, !.access = nextToken]
                       ELSE [NoAuthResp EXCEPT !.op = "refresh", !.refresh = rt,
                                !.error = "Invalid or expired refresh token"]
        /\ UNCHANGED <<now, taskVars, legacyVars, entityVars, userVars, attemptVars,
                       sessionVars, authSideVars>>

(* AuthenticationDomainService.logout_user; NoId is session_id None *)
logout_user(ss, us, ts, ut, uid, sid, t) ==
    LET se == IF sid # NoId
              THEN [sessionStore |-> terminate_session(ss, sid, t), userSessions |-> us]
              ELSE terminate_all_user_sessions(ss, us, uid, t)
        tk == revoke_all_user_tokens(ts, ut, uid, t)
    IN  [sessionStore |-> se.sessionStore, userSessions |-> se.userSessions,
         tokenStore |-> tk.tokenStore, userTokens |-> tk.userTokens]

(* LogoutUseCase.execute: the session_id handed to logout_user *)
LogoutSessionId(session_id, revoke_all_sessions) ==
    IF ~revoke_all_sessions THEN session_id ELSE NoId

(* logout view: the bearer of a valid access token logs out; the DTO is
   built from user_id and revoke_all_sessions only, session_id stays None *)
Logout(tok, revoke_all_sessions) ==
    LET payload == validate_jwt_token(tokenStore, tok, now)
    IN  /\ payload # NoToken
        /\ payload.token_type = "access"
        /\ LET r == logout_user(sessionStore, userSessions, tokenStore, userTokens,
                                payload.user_id,
                                LogoutSessionId(NoId, revoke_all_sessions), now)
           IN  /\ sessionStore' = r.sessionStore
               /\ userSessions' = r.userSessions
               /\ tokenStore' = r.tokenStore
               /\ userTokens' = r.userTokens
        /\ authPrev' = AuthSnapshot
        /\ authResp' = [NoAuthResp EXCEPT !.op = "logout", !.user = payload.user_id,
                           !.success = TRUE, !.error = "ok", !.access = tok,
                           !.revoke_all = revoke_all_sessions]
        /\ UNCHANGED <<now, taskVars, legacyVars, entityVars, userVars, attemptVars,
                       nextToken, nextSession, authSideVars>>

(* the moments at which an access token, a session and a refresh token
   issued at 0 or after an hour run out *)
SessionTimes ==
    {ACCESS_MINUTES, 2 * ACCESS_MINUTES, SESSION_MINUTES, REFRESH_MINUTES}

InitSession ==
    /\ now = 0
    /\ TasksIdle
    /\ LegacyIdle
    /\ EntityIdle
    /\ UserIdle
    /\ AuthIdle

NextSession ==
    \/ Login(REGISTERED_EMAIL, "ip1", "good")
    \/ \E rt \in TokenIds : RefreshToken(rt)
    \/ \E tok \in TokenIds, all \in BOOLEAN : Logout(tok, all)
    \/ \E t \in SessionTimes : t > now /\ AuthTick(t - now, REFRESH_MINUTES)

SpecSession == InitSession /\ [][NextSession]_vars

(* C15: a refresh mints a new access token only when the token supplied
   was, as the request found the store, present, not revoked, not yet
   expired and of type refresh; a refused refresh stores nothing; after
   an accepted refresh the new access token is stored for an hour and
   the same refresh token is unchanged and still validates. *)
C15_RefreshOnlyValidRefreshToken ==
    authResp.op = "refresh" =>
        LET rt == authResp.refresh
            e  == authPrev.tokens[rt]
        IN  IF authResp.success
            THEN /\ e.present
                 /\ authPrev.at < e.until
                 /\ ~e.val.is_revoked
                 /\ authPrev.at < e.val.expires_at
                 /\ e.val.token_type = "refresh"
                 /\ ~authPrev.tokens[authResp.access].present
                 /\ tokenStore[authResp.access].present
                 /\ tokenStore[authResp.access].val =
                        AuthToken("access", e.val.user_id, now, ACCESS_MINUTES)
                 /\ tokenStore[rt] = e
                 /\ validate_jwt_token(tokenStore, rt, now) = e.val
            ELSE tokenStore = authPrev.tokens

(* C15 witness: the refresh token of the login is accepted a second time *)
C15_Witness ==
    /\ authResp.op = "refresh"
    /\ authResp.success
    /\ authResp.refresh = 2
    /\ authResp.access = 4
    /\ tokenStore[3].present
    /\ tokenStore[3].val.token_type = "access"

(* C18: after a logout without revoke-all-sessions at most the caller's
   one session has stopped being valid and every other session valid
   before is valid still; after a logout with revoke-all-sessions no
   session of the user is valid. *)
C18_Valid(ss, t) ==
    {sid \in SessionIds : /\ find_session(ss, sid, t) # NoSession
                          /\ session_is_valid(find_session(ss, sid, t), t)}

C18_LogoutSessionFrame ==
    authResp.op = "logout" =>
        IF authResp.revoke_all
        THEN C18_Valid(sessionStore, now) = {}
        ELSE Cardinality(C18_Valid(authPrev.sessions, authPrev.at)
                            \ C18_Valid(sessionStore, now)) <= 1

(* ------------------------------------------------------------------ *)
(* CreateTaskUseCase.execute called with a DTO of the caller's making  *)
(* ------------------------------------------------------------------ *)
CreateTitles ==
    {<<"A", "B">>, <<" ", "a", "b", " ">>, <<"a", "b", "c">>, <<"a", "a", " ", "b">>}

(* use_case.execute(dto) *)
ExecuteCreateTask(u, title, prio, due) ==
    /\ FreeIds(tasks, MaxStoreTasks) # {}
    /\ LET dto == [title |-> title, priority |-> prio, due_date |-> due, user_id |-> u]
           r   == CreateTaskUC(tasks, dto, LeastFree(tasks, MaxStoreTasks), now)
       IN  /\ tasks' = r.store
           /\ resp' = [Resp("execute_create", u, r.id, 0, r)
                          EXCEPT !.req_priority = prio, !.req_title = title]
    /\ prev' = tasks
    /\ UNCHANGED <<now, outsideTasks>>

InitCreate ==
    /\ now = 0
    /\ TasksIdle
    /\ LegacyIdle
    /\ EntityIdle
    /\ UserIdle
    /\ AuthIdle

NextCreate ==
    \/ \E u \in StoreOwners, title \in CreateTitles, prio \in {"high", "urgent"},
          due \in {NoTime, 0, MaxEntityTicks} :
          ExecuteCreateTask(u, title, prio, due)
    \/ \E u \in StoreOwners, i \in StoreIds : TaskDetailDelete(u, i)
    \/ Tick(1, MaxEntityTicks) /\ UNCHANGED <<userVars, authVars>>

SpecCreate == InitCreate /\ [][NextCreate]_vars

(* C17: CreateTaskUseCase.execute with a title of fewer than 3
   characters raises a ValueError whose message contains "Validation
   failed", and the store is left as it was. *)
C17_ShortTitleValidationFailed ==
    (resp.op = "execute_create" /\ Len(resp.req_title) < 3) =>
        /\ resp.exc = "ValueError"
        /\ resp.prefix = "Validation failed"
        /\ tasks = prev

(* ------------------------------------------------------------------ *)
(* The expired-lock sweep over the users table                         *)
(* ------------------------------------------------------------------ *)
(* DjangoUserRepository.find_locked_users: account_locked_until__gt=t *)
find_locked_users(acc, t) ==
    {a \in DOMAIN acc : /\ acc[a].account_locked_until # NoTime
                        /\ acc[a].account_locked_until > t}

(* UserDomainService.unlock_expired_accounts: the query runs at t1, the
   loop reads the clock at t2; the table as saved and the users returned *)
unlock_expired_accounts(acc, t1, t2) ==
    LET locked_users == find_locked_users(acc, t1)
        unlocked_users == {a \in locked_users :
                              /\ acc[a].account_locked_until # NoTime
                              /\ t2 >= acc[a].account_locked_until}
    IN  [accounts |-> [a \in DOMAIN acc |->
                          IF a \in unlocked_users THEN unlock_account(acc[a]).user
                          ELSE acc[a]],
         returned |-> unlocked_users]

SweepStep == UNCHANGED <<taskVars, legacyVars, entity, entityHist, stats, pagination,
                         raceVars, userVars, authVars>>

(* authenticate_user for one account of the table, under its own address *)
AccountAuthenticate(a, pw) ==
    /\ accounts' = [accounts EXCEPT
                       ![a] = authenticate_user(@, REGISTERED_EMAIL, pw, now).user]
    /\ UNCHANGED <<now, sweep>>
    /\ SweepStep

(* UnlockExpiredAccountsUseCase.execute; dt minutes pass between the
   query and the loop *)
UnlockExpiredAccounts(dt) ==
    /\ now + dt <= LOCK_MINUTES + MaxSweepTicks
    /\ LET r == unlock_expired_accounts(accounts, now, now + dt)
       IN  /\ accounts' = r.accounts
           /\ sweep' = [ran |-> TRUE, began |-> now, at |-> now + dt, before |-> accounts,
                        after |-> r.accounts, returned |-> r.returned]
    /\ now' = now + dt
    /\ SweepStep

SweepTimes == {t + d : t \in {0, LOCK_MINUTES}, d \in 0..MaxSweepTicks}

(* the clock moves on to the next moment of interest *)
SweepTick(t) ==
    /\ t > now
    /\ now' = t
    /\ UNCHANGED <<accounts, sweep>>
    /\ SweepStep

InitSweep ==
    /\ now = 0
    /\ TasksIdle
    /\ LegacyIdle
    /\ EntityIdle
    /\ UserIdle
    /\ AuthIdle

NextSweep ==
    \/ \E a \in AccountIds : AccountAuthenticate(a, "bad")
    \/ \E dt \in {0, 1} : UnlockExpiredAccounts(dt)
    \/ \E t \in SweepTimes : SweepTick(t)

SpecSweep == InitSweep /\ [][NextSweep]_vars

(* C19: after a sweep that ran at time t, every user whose lock-until
   was at or before t is unlocked in the table (lock-until cleared,
   failed counter 0, SUSPENDED turned ACTIVE) and is in the returned
   set, and every other user is as before and not returned. *)
C19_SweepUnlocksExpired ==
    sweep.ran =>
        \A a \in AccountIds :
            LET b == sweep.before[a]
            IN  IF b.account_locked_until # NoTime /\ b.account_locked_until <= sweep.at
                THEN /\ sweep.after[a] = unlock_account(b).user
                     /\ a \in sweep.returned
                ELSE /\ sweep.after[a] = b
                     /\ a \notin sweep.returned

(* ------------------------------------------------------------------ *)
(* authenticate_user on the one registered account, no rate limit in   *)
(* force: failures lock it, the lock runs out                          *)
(* ------------------------------------------------------------------ *)
(* UserDomainService.authenticate_user *)
AuthenticateUser(pw) ==
    LET r == authenticate_user(user, REGISTERED_EMAIL, pw, now)
    IN  /\ user' = r.user
        /\ userHist' = [op |-> "authenticate_user", ok |-> r.result = "user",
                        counting |-> FALSE, streak |-> 0, error |-> r.result,
                        before |-> user, level |-> "none",
                        password_ok |-> verify_password(pw)]
        /\ UNCHANGED <<now, taskVars, legacyVars, entityVars, authVars>>

(* Time passes over the entity, d minutes at a time *)
UserTickBy(d, limit) ==
    /\ UNCHANGED authVars
    /\ Tick(d, limit)
    /\ userHist' = [userHist EXCEPT !.op = "tick", !.error = "none", !.before = user,
                                    !.level = "none"]
    /\ UNCHANGED user

InitLock ==
    /\ now = 0
    /\ TasksIdle
    /\ LegacyIdle
    /\ EntityIdle
    /\ UserIdle
    /\ AuthIdle

NextLock ==
    \/ \E pw \in {"good", "bad"} : AuthenticateUser(pw)
    \/ \E d \in {1, LOCK_MINUTES} : UserTickBy(d, LOCK_MINUTES + MaxEntityTicks)

SpecLock == InitLock /\ [][NextLock]_vars

(* C20: for a user locked by the fifth failed attempt, once the
   lock-until time has passed, authenticate_user with the correct
   password succeeds, no unlock having been run. *)
C20_LockIsTemporary ==
    (/\ userHist.op = "authenticate_user"
     /\ userHist.password_ok
     /\ userHist.before.failed_login_attempts >= MAX_ATTEMPTS
     /\ userHist.before.account_locked_until # NoTime
     /\ userHist.before.account_locked_until < now)
    => userHist.ok

(* C21: in every reachable state of the User entity under its methods
   and the passage of time, status SUSPENDED implies a lock-until that
   is set and lies in the future. *)
C21_SuspendedImpliesLocked ==
    user.status = "suspended" =>
        /\ user.account_locked_until # NoTime
        /\ now < user.account_locked_until

(* ------------------------------------------------------------------ *)
(* Logins that go on while a rate limit is in force                    *)
(* ------------------------------------------------------------------ *)
BlockTimes == {1, WINDOW_MINUTES + 1}

InitBlock ==
    /\ now = 0
    /\ TasksIdle
    /\ LegacyIdle
    /\ EntityIdle
    /\ UserIdle
    /\ AuthIdle

NextBlock ==
    \/ \E pw \in {"bad", "good"} : Login(REGISTERED_EMAIL, "ip1", pw)
    \/ \E t \in BlockTimes : t > now /\ AuthTick(t - now, WINDOW_MINUTES + 1)

SpecBlock == InitBlock /\ [][NextBlock]_vars

(* failed attempts of the window that reached credential verification *)
C22_Verified(e, t) ==
    LET b == CacheGet(e, t, EmptyBag)
    IN  CountIn({a \in BagToSet(b) :
                    /\ a.attempted_at >= t - WINDOW_MINUTES
                    /\ ~a.success
                    /\ a.failure_reason \notin {"ip_rate_limited", "email_rate_limited"}}, b)

(* C22: a login rejected by a rate limit is recorded with the reason of
   its limit, and it is rejected only when the failed attempts of the
   last 15 minutes that reached credential verification alone reach
   the limit: rejected attempts do not count toward it. *)
C22_BlockedAttemptsNotCounted ==
    /\ (authResp.op = "login" /\ authResp.error = "email_rate_limited") =>
          /\ \E a \in BagToSet(emailAttempts[authResp.email].val) :
                a.failure_reason = "email_rate_limited" /\ a.attempted_at = now
          /\ C22_Verified(authPrev.email[authResp.email], now) >= EMAIL_MAX_ATTEMPTS
    /\ (authResp.op = "login" /\ authResp.error = "ip_rate_limited") =>
          /\ \E a \in BagToSet(ipAttempts[authResp.ip].val) :
                a.failure_reason = "ip_rate_limited" /\ a.attempted_at = now
          /\ C22_Verified(authPrev.ip[authResp.ip], now) >= IP_MAX_ATTEMPTS

(* ------------------------------------------------------------------ *)
(* UpdateTaskUseCase.execute one database statement at a time, with    *)
(* other requests in between                                           *)
(* ------------------------------------------------------------------ *)
(* the updated_task built by UpdateTaskUseCase.execute *)
UpdatedTask(existing, dto, t) ==
    LET merged == [existing EXCEPT
            !.title = IF dto.title # NoTitle THEN dto.title ELSE @,
            !.priority = IF dto.priority # NoField THEN dto.priority ELSE @,
            !.due_date = IF dto.due_date # NoTime THEN dto.due_date ELSE @]
    IN  IF dto.status = "completed" /\ existing.status # "completed"
        THEN mark_as_completed(merged, t).task
        ELSE IF dto.status = "pending" /\ existing.status = "completed"
             THEN mark_as_pending(merged).task
             ELSE IF dto.status # NoField /\ dto.status # existing.status
                  THEN [merged EXCEPT !.status = dto.status]
                  ELSE merged

RaceStep ==
    /\ prev' = tasks
    /\ UNCHANGED <<now, legacyVars, entity, entityHist, stats, pagination, accountVars,
                   validating, terminated, userVars, authVars>>

(* execute up to the call of save: find_by_id, the entity, the rules *)
UpdateLoad(id, prio, st) ==
    LET dto == [task_id |-> id, title |-> NoTitle, priority |-> prio, status |-> st,
                due_date |-> NoTime]
        r == UpdateTaskUC(tasks, dto, now)
    IN  /\ saving.pc = "idle"
        /\ IF r.exc # "none"
           THEN saving' = [NoSaving EXCEPT !.id = id, !.outcome = "raised",
                                           !.absent = find_by_id(tasks, id) = NoTask,
                                           !.after = tasks[id]]
           ELSE saving' = [NoSaving EXCEPT !.pc = "get", !.id = id,
                              !.task = UpdatedTask(find_by_id(tasks, id), dto, now)]
        /\ resp' = [NoResp EXCEPT !.op = "update_load", !.id = id, !.exc = r.exc,
                                  !.prefix = r.prefix, !.msgs = r.msgs]
        /\ UNCHANGED tasks
        /\ RaceStep

(* DjangoTaskRepository.save: TaskModel.objects.get(id=task.id) and
   update_model_from_entity, or the ValueError *)
SaveGet ==
    /\ saving.pc = "get"
    /\ IF tasks[saving.id] = NoTask
       THEN /\ saving' = [saving EXCEPT !.pc = "idle", !.outcome = "not_found",
                                        !.absent = TRUE, !.after = NoTask]
            /\ resp' = [NoResp EXCEPT !.op = "update_save", !.id = saving.id,
                           !.exc = "ValueError", !.msgs = {"Task with ID not found"}]
       ELSE /\ saving' = [saving EXCEPT !.pc = "save",
                             !.model = update_model_from_entity(tasks[saving.id], saving.task)]
            /\ resp' = [NoResp EXCEPT !.op = "update_get", !.id = saving.id]
    /\ UNCHANGED tasks
    /\ RaceStep

(* DjangoTaskRepository.save: model.save(), an UPDATE by primary key
   and, when no row matched it, an INSERT of the instance *)
SaveWrite ==
    /\ saving.pc = "save"
    /\ tasks' = [tasks EXCEPT ![saving.id] = ModelSave(saving.model, now)]
    /\ saving' = [saving EXCEPT !.pc = "idle", !.outcome = "saved",
                                !.absent = tasks[saving.id] = NoTask,
                                !.after = ModelSave(saving.model, now)]
    /\ resp' = [NoResp EXCEPT !.op = "update_save", !.id = saving.id]
    /\ RaceStep

InitSaveRace ==
    /\ now = 0
    /\ TasksIdle
    /\ LegacyIdle
    /\ EntityIdle
    /\ UserIdle
    /\ AuthIdle

(* ids are UUIDs: a create never takes the id of the update in flight *)
NextSaveRace ==
    \/ \E title \in StoreTitles, prio \in {"low", "high"} :
          /\ IF saving.pc = "idle" THEN TRUE ELSE tasks[saving.id] # NoTask
          /\ CreateTask("u1", title, prio, NoTime, MaxStoreTasks)
    \/ \E i \in StoreIds, prio \in {NoField, "urgent"}, st \in {NoField, "completed"} :
          UpdateLoad(i, prio, st)
    \/ SaveGet
    \/ SaveWrite
    \/ \E i \in StoreIds : TaskDetailDelete("u1", i)

SpecSaveRace == InitSaveRace /\ [][NextSaveRace]_vars

(* C23: an update whose record had been deleted by the time of its save
   ends with NotFound and leaves the task deleted; its save inserts
   nothing. *)
C23_SaveNeverInserts ==
    (saving.outcome # "none" /\ saving.absent) =>
        /\ saving.outcome \in {"raised", "not_found"}
        /\ saving.after = NoTask

(* ------------------------------------------------------------------ *)
(* validate_session one cache operation at a time, with terminations   *)
(* in between.  terminated holds the sessions whose termination has    *)
(* returned.                                                           *)
(* ------------------------------------------------------------------ *)
SessionRaceStep ==
    /\ authPrev' = AuthSnapshot
    /\ UNCHANGED <<now, taskVars, legacyVars, entity, entityHist, stats, pagination,
                   accountVars, saving, userVars, attemptVars, nextToken, nextSession,
                   authSideVars>>

(* validate_session: find_session, is_valid and update_activity *)
ValidateRead(sid) ==
    LET x == find_session(sessionStore, sid, now)
    IN  /\ validating.pc = "idle"
        /\ IF x = NoSession
           THEN /\ UNCHANGED validating
                /\ authResp' = [NoAuthResp EXCEPT !.op = "validate_session",
                                                  !.session = sid, !.error = "invalid"]
           ELSE IF ~session_is_valid(x, now)
           THEN /\ UNCHANGED validating
                /\ authResp' = [NoAuthResp EXCEPT !.op = "validate_session",
                                                  !.session = sid, !.error = "invalid"]
           ELSE /\ validating' = [pc |-> "save", sid |-> sid,
                                  session |-> [x EXCEPT !.last_activity = now]]
                /\ authResp' = [NoAuthResp EXCEPT !.op = "validate_read", !.session = sid]
        /\ UNCHANGED <<tokenStore, userTokens, sessionStore, userSessions, terminated>>
        /\ SessionRaceStep

(* validate_session: save_session of the session read, which is returned *)
ValidateSave ==
    LET se == save_session(sessionStore, userSessions, validating.sid,
                           validating.session, now)
    IN  /\ validating.pc = "save"
        /\ sessionStore' = se.sessionStore
        /\ userSessions' = se.userSessions
        /\ validating' = NoValidating
        /\ authResp' = [NoAuthResp EXCEPT !.op = "validate_session", !.success = TRUE,
                           !.error = "ok", !.session = validating.sid,
                           !.user = validating.session.user_id]
        /\ UNCHANGED <<tokenStore, userTokens, terminated>>
        /\ SessionRaceStep

(* logout_user with a session_id: terminate_session, then the tokens *)
LogoutSession(sid) ==
    LET r == logout_user(sessionStore, userSessions, tokenStore, userTokens,
                         REGISTERED_ID, sid, now)
    IN  /\ find_session(sessionStore, sid, now) # NoSession
        /\ sessionStore' = r.sessionStore
        /\ userSessions' = r.userSessions
        /\ tokenStore' = r.tokenStore
        /\ userTokens' = r.userTokens
        /\ terminated' = terminated \cup {sid}
        /\ authResp' = [NoAuthResp EXCEPT !.op = "logout", !.user = REGISTERED_ID,
                           !.success = TRUE, !.error = "ok", !.session = sid]
        /\ UNCHANGED validating
        /\ SessionRaceStep

(* a minute on, the end of the cleanup minute, and the end of a session *)
SessionRaceTimes == {1, 2, SESSION_MINUTES}

InitSessionRace ==
    /\ now = 0
    /\ TasksIdle
    /\ LegacyIdle
    /\ EntityIdle
    /\ UserIdle
    /\ AuthIdle

NextSessionRace ==
    \/ Login(REGISTERED_EMAIL, "ip1", "good")
    \/ \E sid \in SessionIds : ValidateRead(sid)
    \/ ValidateSave
    \/ \E sid \in SessionIds : LogoutSession(sid)
    \/ \E t \in SessionRaceTimes : t > now /\ AuthTick(t - now, SESSION_MINUTES)

SpecSessionRace == InitSessionRace /\ [][NextSessionRace]_vars

(* C24: once the termination of a session has returned, the session as
   stored is not valid, so that no later validate_session reports it
   valid: a validation that read it before the termination does not
   write it back as active. *)
C24_TerminatedStaysInvalid ==
    \A sid \in terminated :
        \/ find_session(sessionStore, sid, now) = NoSession
        \/ ~session_is_valid(find_session(sessionStore, sid, now), now)

(* ------------------------------------------------------------------ *)
(* Concurrent issuance: logins and refreshes interleave, a logout      *)
(* starts only when no issuance is in flight                           *)
(* ------------------------------------------------------------------ *)
InitIssue ==
    /\ now = 0
    /\ TasksIdle
    /\ LegacyIdle
    /\ EntityIdle
    /\ UserIdle
    /\ AuthIdle

NextIssue ==
    \/ \E p \in Procs : LoginBegin(p, REGISTERED_EMAIL, "ip1")
    \/ \E p \in Procs : SaveTokenSet(p)
    \/ \E p \in Procs : SaveTokenGet(p)
    \/ \E p \in Procs : SaveTokenPut(p)
    \/ \E p \in Procs : LoginFinish(p, REGISTERED_EMAIL, "ip1")
    \/ \E p \in Procs, rt \in TokenIds : RefreshBegin(p, rt)
    \/ \E tok \in TokenIds :
          (\A p \in Procs : procs[p].pc = "idle") /\ Logout(tok, TRUE)
    \/ AuthTick(HOUR, HOUR * MaxTicks)

SpecIssue == InitIssue /\ [][NextIssue]_vars

(* C25: with no issuance in flight, every token held in the store is in
   its user's tracking list, so that a bulk revocation starting then
   deletes every one of them. *)
C25_StoredTokensTracked ==
    (\A p \in Procs : procs[p].pc = "idle") =>
        \A t \in TokenIds :
            find_token(tokenStore, t, now) # NoToken =>
                t \in SeqToSet(GetUserTokens(userTokens,
                                             find_token(tokenStore, t, now).user_id, now))

(* ------------------------------------------------------------------ *)
(* Priorities: creation, update and deadline auto-prioritization       *)
(* ------------------------------------------------------------------ *)
(* Task.update_priority *)
update_priority(e, new_priority) ==
    IF e.status = "completed"
    THEN [ok |-> FALSE, error |-> "Cannot change priority of completed task", task |-> e]
    ELSE [ok |-> TRUE, error |-> "ok", task |-> [e EXCEPT !.priority = new_priority]]

(* TaskDomainService.prioritize_tasks_by_deadline, one task of the list:
   the record as saved *)
PrioritizeOne(store, id, t) ==
    LET task == find_by_id(store, id)
    IN  IF task.due_date # NoTime /\ ~is_completed(task)
        THEN LET e == IF task.due_date - t <= HOUR
                      THEN update_priority(task, "urgent").task
                      ELSE IF task.due_date - t <= 24 * HOUR
                           THEN update_priority(task, "high").task
                           ELSE task
             IN  RepoSave(store, e, NoId, t).store[id]
        ELSE store[id]

(* TaskDomainService.prioritize_tasks_by_deadline over the tasks ids *)
prioritize_tasks_by_deadline(store, ids, t) ==
    [i \in DOMAIN store |-> IF i \in ids THEN PrioritizeOne(store, i, t) ELSE store[i]]

(* AutoPrioritizeTasksUseCase.execute: the owner's tasks not completed *)
AutoPrioritizeTasksUC(store, user_id, t) ==
    prioritize_tasks_by_deadline(store,
        {i \in find_by_user_id(store, user_id) : ~is_completed(find_by_id(store, i))}, t)

(* auto_prioritize_tasks view *)
AutoPrioritizeTasks(u) ==
    /\ tasks' = AutoPrioritizeTasksUC(tasks, u, now)
    /\ resp' = [NoResp EXCEPT !.op = "auto_prioritize", !.user = u, !.code = 200]
    /\ prev' = tasks
    /\ UNCHANGED <<now, outsideTasks>>

PriorityTitles ==
    <<<<"a", "a", "a">>, <<"b", "b", "b">>, <<"c", "c", "c">>, <<"d", "d", "d">>>>

InitPriority ==
    /\ now = 0
    /\ TasksIdle
    /\ LegacyIdle
    /\ EntityIdle
    /\ UserIdle
    /\ AuthIdle

(* what is asked for: a priority with its due date, or one changed field *)
PriorityCreates == {<<"urgent", NoTime>>, <<"high", HOUR>>}

PriorityUpdates == {<<"urgent", NoField>>, <<NoField, "completed">>}

NextPriority ==
    \/ \E q \in PriorityCreates :
          /\ FreeIds(tasks, MaxTasks) # {}
          /\ CreateTask("u1", PriorityTitles[LeastFree(tasks, MaxTasks)], q[1], q[2], MaxTasks)
    \/ \E i \in TaskIds, q \in PriorityUpdates :
          TaskDetailPut("u1", i, NoTitle, q[1], q[2], NoTime)
    \/ AutoPrioritizeTasks("u1")

SpecPriority == InitPriority /\ [][NextPriority]_vars

(* C26: no operation changes the priority of a task that was completed
   when the operation found it. *)
C26_CompletedPriorityKept ==
    \A i \in TaskIds :
        (prev[i] # NoTask /\ prev[i].status = "completed" /\ tasks[i] # NoTask) =>
            tasks[i].priority = prev[i].priority

(* C27: no owner has more than 3 urgent tasks that are not completed. *)
C27_UrgentNeverAboveLimit ==
    \A u \in Owners :
        Cardinality({i \in TaskIds : /\ tasks[i] # NoTask
                                     /\ tasks[i].user_id = u
                                     /\ tasks[i].priority = "urgent"
                                     /\ tasks[i].status # "completed"}) <= URGENT_LIMIT

(* ------------------------------------------------------------------ *)
(* DjangoTaskRepository.get_statistics against TaskStatistics.calculate *)
(* ------------------------------------------------------------------ *)
(* queryset.filter(user_id=user_id) when a user id is given *)
StatisticsQueryset(rows, user_id) ==
    IF user_id = NoField THEN rows
    ELSE SelectSeq(rows, LAMBDA r : r.user_id = user_id)

(* DjangoTaskRepository.get_statistics: the aggregate over the rows *)
get_statistics(rows, user_id, t) ==
    LET queryset == StatisticsQueryset(rows, user_id)
        n == Len(queryset)
        total == n
        completed == SumFlags([i \in 1..n |-> queryset[i].status = "completed"])
        pending == SumFlags([i \in 1..n |->
                        queryset[i].status \in {"pending", "in_progress"}])
        high == SumFlags([i \in 1..n |->
                        queryset[i].priority \in {"high", "urgent"}])
        overdue == SumFlags([i \in 1..n |->
                        /\ queryset[i].due_date # NoTime
                        /\ queryset[i].due_date < t
                        /\ queryset[i].status \in {"pending", "in_progress"}])
    IN  [total_tasks |-> total, completed_tasks |-> completed,
         pending_tasks |-> pending, overdue_tasks |-> overdue,
         high_priority_tasks |-> high,
         completion_rate |-> Rate(completed, total)]

StoredStatTasks ==
    {StatTask(prio, st, due) :
        prio \in {"low", "urgent"},
        st \in {"pending", "in_progress", "completed", "cancelled"},
        due \in {NoTime, 1}}

(* the same tasks aggregated from the store and reduced in memory *)
GetStatistics(list) ==
    /\ stats' = [calculated |-> TRUE, input |-> list, at |-> now,
                 result |-> TaskStatisticsCalculate(list, now),
                 stored |-> get_statistics(list, NoField, now)]
    /\ UNCHANGED <<now, taskVars, legacyVars, entity, entityHist, pagination, accountVars,
                   raceVars,
                   userVars, authVars>>

InitStored ==
    /\ now = 0
    /\ TasksIdle
    /\ LegacyIdle
    /\ EntityIdle
    /\ UserIdle
    /\ AuthIdle

NextStored ==
    \/ \E e \in StoredStatTasks :
          /\ Len(StatInput) < MaxStoredTasks
          /\ GetStatistics(Append(StatInput, e))
    \/ GetStatistics(<<>>)
    \/ Tick(1, MaxEntityTicks) /\ UNCHANGED <<userVars, authVars>>

SpecStored == InitStored /\ [][NextStored]_vars

(* C28: for the same tasks, the statistics aggregated from the store and
   those calculated over the entities agree on the total, completed,
   pending, overdue and high-priority counts. *)
C28_StoredEqualsCalculated ==
    stats.calculated =>
        /\ stats.stored.total_tasks = stats.result.total_tasks
        /\ stats.stored.completed_tasks = stats.result.completed_tasks
        /\ stats.stored.pending_tasks = stats.result.pending_tasks
        /\ stats.stored.overdue_tasks = stats.result.overdue_tasks
        /\ stats.stored.high_priority_tasks = stats.result.high_priority_tasks

(* ------------------------------------------------------------------ *)
(* User productivity: domain service, use case and view                *)
(* ------------------------------------------------------------------ *)
(* min(100, x) of a fraction *)
MinHundred(x) == IF x.num > 100 * x.den THEN [num |-> 100, den |-> 1] ELSE x

(* sum(completion_times) / len(completion_times), in hours, else 0 *)
AverageCompletionTime(store, done) ==
    IF done = {} THEN [num |-> 0, den |-> 1]
    ELSE [num |-> SumOver(done, [i \in done |->
                        store[i].completed_at - store[i].created_at]),
          den |-> HOUR * Cardinality(done)]

(* completion_rate * 0.7 + (100 - min(100, avg)) * 0.3, capped at 100 *)
ProductivityScore(rate, avg) ==
    LET m == MinHundred(avg)
    IN  MinHundred([num |-> 7 * rate.num * m.den + 3 * (100 * m.den - m.num) * rate.den,
                    den |-> 10 * rate.den * m.den])

(* TaskDomainService.calculate_user_productivity: the dict returned *)
calculate_user_productivity(store, user_id, days, t) ==
    LET user_tasks == find_by_user_id(store, user_id)
        cutoff_date == t - days * DAY
        recent_tasks == {i \in user_tasks : /\ store[i].created_at # NoTime
                                            /\ store[i].created_at >= cutoff_date}
        completed_tasks == {i \in recent_tasks : is_completed(store[i])}
        timed == {i \in completed_tasks : /\ store[i].created_at # NoTime
                                          /\ store[i].completed_at # NoTime}
        avg == AverageCompletionTime(store, timed)
        rate == Rate(Cardinality(completed_tasks), Cardinality(recent_tasks))
    IN  IF recent_tasks = {}
        THEN [total_tasks |-> 0, completion_rate |-> [num |-> 0, den |-> 1],
              average_completion_time |-> [num |-> 0, den |-> 1],
              productivity_score |-> [num |-> 0, den |-> 1]]
        ELSE [total_tasks |-> Cardinality(recent_tasks),
              completed_tasks |-> Cardinality(completed_tasks),
              completion_rate |-> rate,
              average_completion_time |-> avg,
              productivity_score |-> ProductivityScore(rate, avg)]

ProductivityKeys ==
    {"total_tasks", "completed_tasks", "completion_rate",
     "average_completion_time", "productivity_score"}

(* GetUserProductivityUseCase.execute: the DTO, or the KeyError of a
   key the dict does not hold *)
GetUserProductivityUC(store, user_id, days, t) ==
    LET productivity_data == calculate_user_productivity(store, user_id, days, t)
    IN  IF ProductivityKeys \subseteq DOMAIN productivity_data
        THEN [exc |-> "none", dto |-> productivity_data]
        ELSE [exc |-> "KeyError", dto |-> NoField]

(* user_productivity view *)
UserProductivity(u, days) ==
    /\ LET r == GetUserProductivityUC(tasks, u, days, now)
       IN  resp' = [NoResp EXCEPT
                      !.op = "user_productivity", !.user = u, !.req_days = days,
                      !.exc = r.exc,
                      !.code = IF r.exc = "none" THEN 200 ELSE 500,
                      !.body = IF r.exc = "none" THEN r.dto
                               ELSE [error |-> "Unable to fetch productivity metrics"]]
    /\ prev' = tasks
    /\ UNCHANGED <<now, tasks, outsideTasks>>

InitProductivity ==
    /\ now = 0
    /\ TasksIdle
    /\ LegacyIdle
    /\ EntityIdle
    /\ UserIdle
    /\ AuthIdle

ProductivityDays == {1, 30}

ProductivityTimes == {HOUR, DAY + HOUR + 1, 30 * DAY + HOUR + 1}

NextProductivity ==
    \/ /\ FreeIds(tasks, MaxProductivityTasks) # {}
       /\ CreateTask("u1", <<"a", "b", "c">>, "medium", NoTime, MaxProductivityTasks)
    \/ \E i \in 1..MaxProductivityTasks :
          TaskDetailPut("u1", i, NoTitle, NoField, "completed", NoTime)
    \/ \E days \in ProductivityDays : UserProductivity("u1", days)
    \/ \E t \in ProductivityTimes :
          /\ t > now
          /\ Tick(t - now, 30 * DAY + HOUR + 1)
          /\ UNCHANGED <<userVars, authVars>>

SpecProductivity == InitProductivity /\ [][NextProductivity]_vars

C29_Zero(x) == x = 0 \/ (x \in [num : Int, den : Int] /\ x.num = 0)

(* C29: a productivity request for a user with no task created inside
   the window is answered 200 with total 0, completed 0, completion
   rate 0, average completion time 0 and productivity score 0. *)
C29_EmptyWindowAllZero ==
    (/\ resp.op = "user_productivity"
     /\ \A i \in find_by_user_id(tasks, resp.user) :
            tasks[i].created_at < now - resp.req_days * DAY) =>
        /\ resp.code = 200
        /\ ProductivityKeys \subseteq DOMAIN resp.body
        /\ resp.body.total_tasks = 0
        /\ resp.body.completed_tasks = 0
        /\ C29_Zero(resp.body.completion_rate)
        /\ C29_Zero(resp.body.average_completion_time)
        /\ C29_Zero(resp.body.productivity_score)

(* a productivity request with a task inside the window is answered 200 *)
C29_RecentAnswered ==
    (/\ resp.op = "user_productivity"
     /\ \E i \in find_by_user_id(tasks, resp.user) :
            tasks[i].created_at >= now - resp.req_days * DAY) =>
        resp.code = 200 /\ resp.body.total_tasks > 0

(* ------------------------------------------------------------------ *)
(* The stored user record of the api app beside the domain User entity *)
(* ------------------------------------------------------------------ *)
(* save(update_fields=fields): only the named fields reach the row *)
SaveFields(row, instance, fields) ==
    [f \in DOMAIN row |-> IF f \in fields THEN instance[f] ELSE row[f]]

(* api User.is_account_locked *)
legacy_is_account_locked(row, t) ==
    IF row.account_locked_until # NoTime THEN t < row.account_locked_until ELSE FALSE

(* api User.lock_account: [instance, row] *)
legacy_lock_account(instance, row, t) ==
    LET i1 == [instance EXCEPT !.account_locked_until = t + LOCK_MINUTES]
    IN  [instance |-> i1, row |-> SaveFields(row, i1, {"account_locked_until"})]

(* api User.unlock_account *)
legacy_unlock_account(instance, row) ==
    LET i1 == [instance EXCEPT !.account_locked_until = NoTime,
                               !.failed_login_attempts = 0]
    IN  [instance |-> i1,
         row |-> SaveFields(row, i1, {"account_locked_until", "failed_login_attempts"})]

(* api User.increment_failed_login *)
legacy_increment_failed_login(instance, row, t) ==
    LET i1 == [instance EXCEPT !.failed_login_attempts = @ + 1]
        l  == IF i1.failed_login_attempts >= MAX_ATTEMPTS
              THEN legacy_lock_account(i1, row, t)
              ELSE [instance |-> i1, row |-> row]
    IN  [instance |-> l.instance,
         row |-> SaveFields(l.row, l.instance, {"failed_login_attempts"})]

(* api User.reset_failed_login *)
legacy_reset_failed_login(instance, row) ==
    IF instance.failed_login_attempts > 0
    THEN LET i1 == [instance EXCEPT !.failed_login_attempts = 0]
         IN  [instance |-> i1, row |-> SaveFields(row, i1, {"failed_login_attempts"})]
    ELSE [instance |-> instance, row |-> row]

(* the same call on the entity (result r) and on the stored record,
   loaded from its row (result l); the stored record raises nothing *)
BothStep(op, r, l) ==
    /\ user' = r.user
    /\ userHist' = [NoHist EXCEPT !.op = op, !.ok = r.ok, !.error = r.error,
                                  !.before = user]
    /\ legacyUser' = [row |-> l.row, ok |-> TRUE, before |-> legacyUser.row]
    /\ UNCHANGED <<now, taskVars, legacyTasks, entityVars, authVars>>

BothLockAccount ==
    BothStep("lock_account", lock_account(user, now),
             legacy_lock_account(legacyUser.row, legacyUser.row, now))

BothUnlockAccount ==
    BothStep("unlock_account", unlock_account(user),
             legacy_unlock_account(legacyUser.row, legacyUser.row))

BothIncrementFailedLogin ==
    /\ user.failed_login_attempts < MaxFailed
    /\ legacyUser.row.failed_login_attempts < MaxFailed
    /\ BothStep("increment_failed_login", increment_failed_login(user, now),
                legacy_increment_failed_login(legacyUser.row, legacyUser.row, now))

BothResetFailedLogin ==
    BothStep("reset_failed_login", reset_failed_login(user),
             legacy_reset_failed_login(legacyUser.row, legacyUser.row))

(* Time passes over both records *)
BothTick(t) ==
    /\ t > now
    /\ UNCHANGED authVars
    /\ now' = t
    /\ resp' = [NoResp EXCEPT !.op = "tick"]
    /\ prev' = tasks
    /\ userHist' = [userHist EXCEPT !.op = "tick", !.before = user]
    /\ UNCHANGED <<user, tasks, legacyVars, entityVars>>

BothTimes == {LOCK_MINUTES \div 2, LOCK_MINUTES, LOCK_MINUTES + LOCK_MINUTES \div 2}

InitBoth ==
    /\ now = 0
    /\ TasksIdle
    /\ LegacyIdle
    /\ EntityIdle
    /\ UserIdle
    /\ AuthIdle

NextBoth ==
    \/ BothLockAccount
    \/ BothUnlockAccount
    \/ BothIncrementFailedLogin
    \/ BothResetFailedLogin
    \/ \E t \in BothTimes : BothTick(t)

SpecBoth == InitBoth /\ [][NextBoth]_vars

(* C30: after every sequence of lock_account, unlock_account,
   increment_failed_login and reset_failed_login applied to both from
   the same start, the stored record and the entity have the same
   failed-login counter, are locked or unlocked together, and the last
   call was rejected by both or by neither. *)
C30_LegacyAgreesWithEntity ==
    /\ legacyUser.row.failed_login_attempts = user.failed_login_attempts
    /\ legacy_is_account_locked(legacyUser.row, now) <=> is_account_locked(user, now)
    /\ userHist.op \notin {"none", "tick"} => (legacyUser.ok <=> userHist.ok)

(* the counters alone never part *)
C30_CountersAgree ==
    legacyUser.row.failed_login_attempts = user.failed_login_attempts

====
